---- MODULE Spec2Model ----
(***************************************************************************)
(* A model of the probing engine of ntx: the Ping / PingStream loops of    *)
(* the three probers, the statistics derived from the replies, the prober  *)
(* factory with its ICMP-to-TCP fallback, the resolver with its cache, the *)
(* ICMP tracer, and a single ICMP echo probe with its watcher goroutine;   *)
(* further the concurrent batch of the ping command and the fan-out of the *)
(* batch executor, Close of the probers and the tracer, the RTT summary,   *)
(* the target parsing of the TCP prober, successive echo probes on one     *)
(* shared socket, and PingStream together with its consumer.               *)
(*                                                                         *)
(* The module holds several specifications over one set of variables; each *)
(* specification drives one component and leaves the others' variables at  *)
(* their initial values.                                                   *)
(***************************************************************************)
EXTENDS Integers, Sequences, FiniteSets, TLC

VARIABLES
    \* ---- one Ping call (internal/core/ping/{icmp,tcp,http}.go) ----
    prober,      \* which Pinger implementation runs the call
    target,      \* the target argument
    resolves,    \* what netutil.ResolveHost yields: "v4", "v6" or "error"
    conn6,       \* the ICMPPinger holds an IPv6 socket (conn6 != nil)
    count,       \* opts.Count
    ctxErr,      \* ctx.Err(): "nil" until the context is cancelled
    pc,          \* position inside Ping
    i,           \* the loop variable i
    result,      \* the *types.PingResult under construction
    retErr,      \* the error returned by Ping
    issued,      \* number of pingOnce calls made by this Ping call
    \* ---- types.PingResult used through its API (pkg/types/ping.go) ----
    sres,        \* a PingResult receiving AddReply / UpdateStatistics
    fresh,       \* UpdateStatistics ran after the last AddReply
    \* ---- one PingStream call ----
    scount,      \* opts.Count of the stream
    sctx,        \* ctx.Err() of the stream's context
    spc,         \* position of the producer goroutine
    si,          \* the producer's loop variable i
    slot,        \* the reply the producer is blocked sending, or Nil
    closed,      \* replyChan has been closed
    delivered,   \* replies received by the consumer, in order
    created,     \* number of replies the producer has created
    cancelAt,    \* where the producer stood when ctx was cancelled, or nil
    \* ---- Factory.Create ----
    fopts,       \* the *types.PingOptions passed to Create
    rawDenied,   \* the OS refuses icmp.ListenPacket("ip4:icmp")
    fpc,         \* "call" before Create, "ret" after
    fpinger,     \* the Pinger returned by Create, or Nil
    ferr,        \* the error returned by Create
    fin,         \* the options as they were when Create was called
    \* ---- netutil.dnsCache ----
    heap,        \* Host objects by address
    nextRef,     \* next free address
    entries,     \* dnsCache.entries: key -> cacheEntry, or Nil
    now,         \* time.Now()
    held,        \* addresses of the Hosts callers hold
    setVal,      \* per key, the Host value passed to the last set
    gpc,         \* per goroutine, position inside get
    gloc,        \* per goroutine, the locals of get (key, now, entry)
    got,         \* the outcome of the last completed get, as seen on return
    \* ---- netutil.ResolveHost ----
    rpc,         \* position inside ResolveHost
    rhost,       \* the host argument
    rver,        \* the ipVersion argument
    rlookup,     \* what net.LookupIP returned in this call, or nil
    rret,        \* the *types.Host returned
    rerr,        \* the error returned
    rops,        \* the cache operations this call has made, in order
    \* ---- ICMPTracer.Trace ----
    topts,       \* the *types.TraceOptions of the run
    tpc,         \* position inside Trace
    ttl,         \* the loop variable ttl
    hop,         \* the *types.TraceHop that traceHop is filling, or nil
    tres,        \* the *types.TraceResult under construction
    tretErr,     \* the error returned by Trace
    texit,       \* which way the TTL loop was left
    \* ---- ICMPPinger.pingOnce ----
    ipc,         \* position inside pingOnce
    ictx,        \* ctx.Err() of the probe context
    iseq,        \* the seq argument
    irep,        \* the *types.PingReply under construction
    iexpired,    \* time.Now() is after the deadline of the probe
    irdl,        \* the read deadline of the socket, "probe" or "now"
    iwpc,        \* position of the watcher goroutine
    ilast,       \* the message the last ReadFrom returned, or nil
    idisc,       \* number of messages discarded so far
    icancelAt,   \* where pingOnce stood when ctx was cancelled
    iafter,      \* a message was read after the cancellation
    \* ---- runPingBatchConcurrent (internal/cmd/ping/batch.go) ----
    bfmt,        \* the outputFormat argument
    bn,          \* len(targets), the targets being 1..bn
    bctx,        \* ctx.Err() of the batch context
    bmain,       \* position of the calling goroutine
    bsent,       \* number of targets sent on the jobs channel
    bjobsClosed, \* the jobs channel has been closed
    bw,          \* per worker, its position and the target it holds
    bchan,       \* the content of resultsChan, in order
    ball,        \* allResults as collected after the workers ended
    bret,        \* the error returned
    \* ---- the fan-out of batch.go and handler_ping.go, goroutines counted by position ----
    kmode,       \* which fan-out runs, cli or task
    kcpu,        \* runtime.NumCPU()
    kconc,       \* task.Concurrency
    kn,          \* len(targets)
    klimit,      \* the variable concurrency, pool size or semaphore capacity
    kq,          \* targets not yet taken by a worker or goroutines waiting for a slot
    ksel,        \* workers holding a target before the call of Ping
    kping,       \* Ping invocations in flight
    kdone,       \* targets dealt with
    kctx,        \* ctx.Err()
    kpc,         \* position of the calling goroutine
    \* ---- the life of one Pinger or ICMPTracer up to and past Close ----
    ckind,       \* which implementation the instance is
    c4,          \* the field conn4, nil, open or closed
    c6,          \* the field conn6, nil, open or closed
    cerrs,       \* what the calls of Close returned, in order
    cuse,        \* the Status of the result of the last Ping or Trace call
    \* ---- stats.ComputeRTTStats applied to a list of outcomes ----
    qreplies,    \* the outcomes of the probes, in order
    qstats,      \* what ComputeRTTStats returned for the RTTs of the successful ones, or nil
    qres,        \* the PingResult after UpdateStatistics, or nil
    \* ---- the target handling of TCPPinger.Ping and PingStream ----
    ptarget,     \* the target argument, as its characters
    poptPort,    \* opts.Port
    pmode,       \* Ping or PingStream
    ppc,         \* position inside the call
    phost,       \* the host parseTarget returned
    pport,       \* the port parseTarget returned
    perr,        \* the error returned by the call
    plooked,     \* netutil.ResolveHost has been called
    pout,        \* what the call returned besides the error: nil, result or stream
    \* ---- successive ICMP probes on the socket of one ICMPPinger (streamSingleTarget) ----
    wbase,       \* probes the stream has completed before the ones followed here
    wnext,       \* index of the next probe, 0 being the preflight Ping
    wk,          \* index of the probe that runs or ran last
    wpc,         \* position of the goroutine that probes
    wpre,        \* Err() of the context of the preflight Ping
    wmain,       \* Err() of the context of the stream
    wdl,         \* the read deadline of the socket, who set it and who forced it
    wwatch,      \* per probe, the position of its watcher goroutine
    wexp,        \* time.Now() is after the deadline of the running probe
    wnet,        \* the Echo Replies in flight or queued at the socket
    wout,        \* per probe, the reply pingOnce returned, or nil
    \* ---- the consumer of the channel returned by PingStream ----
    consumer,    \* which caller receives, the stream printer or the monitor
    cons         \* what the consumer does, receiving, stopped or ended

pingVars   == <<prober, target, resolves, conn6, count, ctxErr, pc, i, result, retErr, issued>>
statsVars  == <<sres, fresh>>
streamVars == <<scount, sctx, spc, si, slot, closed, delivered, created, cancelAt>>
factVars   == <<fopts, rawDenied, fpc, fpinger, ferr, fin>>
cacheVars  == <<heap, nextRef, entries, now, held, setVal, gpc, gloc, got>>
resolveVars == <<rpc, rhost, rver, rlookup, rret, rerr, rops>>
traceVars  == <<topts, tpc, ttl, hop, tres, tretErr, texit>>
icmpVars   == <<ipc, ictx, iseq, irep, iexpired, irdl, iwpc, ilast, idisc, icancelAt, iafter>>
batchVars  == <<bfmt, bn, bctx, bmain, bsent, bjobsClosed, bw, bchan, ball, bret>>
fanVars    == <<kmode, kcpu, kconc, kn, klimit, kq, ksel, kping, kdone, kctx, kpc>>
closeVars  == <<ckind, c4, c6, cerrs, cuse>>
rttVars    == <<qreplies, qstats, qres>>
tcpVars    == <<ptarget, poptPort, pmode, ppc, phost, pport, perr, plooked, pout>>
sockVars   == <<wbase, wnext, wk, wpc, wpre, wmain, wdl, wwatch, wexp, wnet, wout>>
consVars   == <<consumer, cons>>
vars       == <<pingVars, statsVars, streamVars, factVars, cacheVars, resolveVars, traceVars, icmpVars, batchVars, fanVars, closeVars, rttVars, tcpVars, sockVars, consVars>>

Nil == "nil"            \* a nil error, string or interface
NilRec == [nil |-> TRUE]  \* a nil pointer to a struct

(***************************************************************************)
(* Bounds of the model.                                                    *)
(***************************************************************************)
MaxCount == 3      \* largest opts.Count explored
MaxRTT   == 2      \* RTTs of successful probes range over 1..MaxRTT
MaxStream == 3     \* cap on the replies of an unbounded stream
MaxRefs  == 4      \* Host objects that can be allocated
MaxTime  == 3      \* the clock runs over 0..MaxTime

(***************************************************************************)
(* pkg/types: statuses, protocols, ports.                                  *)
(***************************************************************************)
StatusSuccess == "success"
StatusFailure == "failure"
StatusTimeout == "timeout"

ProtocolICMP == "icmp"
ProtocolTCP  == "tcp"
ProtocolUDP  == "udp"
ProtocolHTTP == "http"
ProtocolHTTPS == "https"

DefaultHTTPPort  == 80
DefaultHTTPSPort == 443
DefaultTCPPort   == 80

ErrInvalidHost  == "invalid host"
ErrNoResponse   == "no response"
ErrResolve      == "network error: resolve"
ErrNoConn       == "permission error: connection not available"
ErrCanceled     == "context canceled"
ErrDeadline     == "context deadline exceeded"

Probers == {"ICMPPinger", "TCPPinger", "HTTPPinger"}

(***************************************************************************)
(* stats.ComputeRTTStats: linear scan for min, max and sum, integer        *)
(* average, population standard deviation truncated to an integer.         *)
(***************************************************************************)
RECURSIVE ScanMin(_, _, _)
ScanMin(rtts, k, m) ==
    IF k > Len(rtts) THEN m
    ELSE ScanMin(rtts, k + 1, IF rtts[k] < m THEN rtts[k] ELSE m)

RECURSIVE ScanMax(_, _, _)
ScanMax(rtts, k, m) ==
    IF k > Len(rtts) THEN m
    ELSE ScanMax(rtts, k + 1, IF rtts[k] > m THEN rtts[k] ELSE m)

RECURSIVE ScanSum(_, _)
ScanSum(rtts, k) ==
    IF k > Len(rtts) THEN 0 ELSE rtts[k] + ScanSum(rtts, k + 1)

RECURSIVE ScanSqDiff(_, _, _)
ScanSqDiff(rtts, k, avg) ==
    IF k > Len(rtts) THEN 0
    ELSE (rtts[k] - avg) * (rtts[k] - avg) + ScanSqDiff(rtts, k + 1, avg)

\* time.Duration(math.Sqrt(x)) for x >= 0: the integer part of the root
ISqrt(n) == CHOOSE k \in 0..n : k * k <= n /\ (k + 1) * (k + 1) > n

\* the average rounded to the nearest nanosecond
ComputeRTTStats_RoundedAvg(rtts) ==
    IF Len(rtts) = 0
    THEN [min |-> 0, max |-> 0, avg |-> 0, stddev |-> 0]
    ELSE LET avg == (2 * ScanSum(rtts, 1) + Len(rtts)) \div (2 * Len(rtts))
         IN  [min    |-> ScanMin(rtts, 1, rtts[1]),
              max    |-> ScanMax(rtts, 1, rtts[1]),
              avg    |-> avg,
              stddev |-> ISqrt(ScanSqDiff(rtts, 1, avg) \div Len(rtts))]

ComputeRTTStats(rtts) ==
    IF Len(rtts) = 0
    THEN [min |-> 0, max |-> 0, avg |-> 0, stddev |-> 0]
    ELSE LET avg == ScanSum(rtts, 1) \div Len(rtts)
         IN  [min    |-> ScanMin(rtts, 1, rtts[1]),
              max    |-> ScanMax(rtts, 1, rtts[1]),
              avg    |-> avg,
              stddev |-> ISqrt(ScanSqDiff(rtts, 1, avg) \div Len(rtts))]

(***************************************************************************)
(* types.PingResult: AddReply and UpdateStatistics.                        *)
(* LossRate is a float64 in the code; it is kept here as the exact         *)
(* fraction <<numerator, denominator>> in lowest terms.                    *)
(***************************************************************************)
RECURSIVE GCD(_, _)
GCD(a, b) == IF b = 0 THEN a ELSE GCD(b, a % b)

Frac(n, d) == LET g == GCD(n, d) IN <<n \div g, d \div g>>

ZeroStatistics ==
    [Sent |-> 0, Received |-> 0, Loss |-> 0, LossRate |-> <<0, 1>>,
     MinRTT |-> 0, MaxRTT |-> 0, AvgRTT |-> 0, StdDevRTT |-> 0]

AddReply(r, reply) == [r EXCEPT !.Replies = Append(@, reply)]

\* counting every reply that did not fail outright
IsReceived_NotFailure(reply) == reply.Status # StatusFailure

\* the test "reply.Status == StatusSuccess" of UpdateStatistics
IsReceived(reply) == reply.Status = StatusSuccess

RECURSIVE SuccessRTTs(_, _)
SuccessRTTs(replies, k) ==
    IF k > Len(replies) THEN <<>>
    ELSE IF IsReceived(replies[k])
         THEN <<replies[k].RTT>> \o SuccessRTTs(replies, k + 1)
         ELSE SuccessRTTs(replies, k + 1)

LossRateOf(old, loss, sent) ==
    IF sent > 0 THEN Frac(loss * 100, sent) ELSE old

UpdateStatistics(r) ==
    LET old   == IF r.Statistics = NilRec THEN ZeroStatistics ELSE r.Statistics
        sent  == Len(r.Replies)
        rtts  == SuccessRTTs(r.Replies, 1)
        recv  == Len(rtts)
        loss  == sent - recv
        rs    == ComputeRTTStats(rtts)
    IN  [r EXCEPT !.Statistics =
            [Sent |-> sent, Received |-> recv, Loss |-> loss,
             LossRate |-> LossRateOf(old.LossRate, loss, sent),
             MinRTT |-> IF recv > 0 THEN rs.min ELSE 0,
             MaxRTT |-> IF recv > 0 THEN rs.max ELSE 0,
             AvgRTT |-> IF recv > 0 THEN rs.avg ELSE 0,
             StdDevRTT |-> IF recv > 0 THEN rs.stddev ELSE 0]]

\* the outcomes of one probe: the status pingOnce settles on, and the RTT
\* (UpdateStatistics reads the RTT of successful replies only; the RTT of
\* the other replies is kept as 0)
Outcomes ==
    {[Status |-> StatusSuccess, RTT |-> r] : r \in 1..MaxRTT}
    \cup {[Status |-> StatusTimeout, RTT |-> 0], [Status |-> StatusFailure, RTT |-> 0]}

pingOnce(seq, o) == [Seq |-> seq, Status |-> o.Status, RTT |-> o.RTT]

(***************************************************************************)
(* Each specification starts the components it does not drive in an idle   *)
(* state and its actions leave them unchanged.                             *)
(***************************************************************************)
\* what the actions of one component leave alone
PingFrame    == UNCHANGED <<statsVars, streamVars, factVars, cacheVars, resolveVars, traceVars, icmpVars, batchVars, fanVars, closeVars, rttVars, tcpVars, sockVars, consVars>>
StatsFrame   == UNCHANGED <<pingVars, streamVars, factVars, cacheVars, resolveVars, traceVars, icmpVars, batchVars, fanVars, closeVars, rttVars, tcpVars, sockVars, consVars>>
StreamFrame  == UNCHANGED <<pingVars, statsVars, factVars, cacheVars, resolveVars, traceVars, icmpVars, batchVars, fanVars, closeVars, rttVars, tcpVars, sockVars, consVars>>
FactoryFrame == UNCHANGED <<pingVars, statsVars, streamVars, cacheVars, resolveVars, traceVars, icmpVars, batchVars, fanVars, closeVars, rttVars, tcpVars, sockVars, consVars>>
CacheFrame   == UNCHANGED <<pingVars, statsVars, streamVars, factVars, resolveVars, traceVars, icmpVars, batchVars, fanVars, closeVars, rttVars, tcpVars, sockVars, consVars>>

(***************************************************************************)
(* Ping: the loop shared by ICMPPinger.Ping, TCPPinger.Ping and            *)
(* HTTPPinger.Ping.                                                        *)
(***************************************************************************)
InitPing ==
    /\ prober \in Probers
    /\ target \in {"", "host"}
    /\ resolves \in {"v4", "v6", "error"}
    /\ conn6 \in (IF prober = "ICMPPinger" THEN BOOLEAN ELSE {FALSE})
    /\ count \in -1..MaxCount
    /\ ctxErr = Nil /\ pc = "start" /\ i = 0
    /\ result = NilRec /\ retErr = Nil /\ issued = 0
    \* the other components stay idle
    /\ sres = NilRec /\ fresh = FALSE
    /\ scount = 0 /\ sctx = Nil /\ spc = "idle" /\ si = 0 /\ slot = NilRec
    /\ closed = FALSE /\ delivered = <<>> /\ created = 0
    /\ cancelAt = NilRec
    /\ fopts = NilRec /\ rawDenied = FALSE /\ fpc = "idle"
    /\ fpinger = Nil /\ ferr = Nil /\ fin = NilRec
    /\ heap = <<>> /\ nextRef = 1 /\ entries = <<>> /\ now = 0
    /\ held = {} /\ setVal = <<>> /\ gpc = <<>> /\ gloc = <<>>
    /\ got = NilRec
    /\ rpc = "idle" /\ rhost = Nil /\ rver = 0 /\ rlookup = NilRec
    /\ rret = NilRec /\ rerr = Nil /\ rops = <<>>
    /\ topts = NilRec /\ tpc = "idle" /\ ttl = 0 /\ hop = NilRec
    /\ tres = NilRec /\ tretErr = Nil /\ texit = Nil
    /\ ipc = "idle" /\ ictx = Nil /\ iseq = 0 /\ irep = NilRec
    /\ iexpired = FALSE /\ irdl = Nil /\ iwpc = "none" /\ ilast = NilRec
    /\ idisc = 0 /\ icancelAt = Nil /\ iafter = FALSE
    /\ bfmt = Nil /\ bn = 0 /\ bctx = Nil /\ bmain = "idle" /\ bsent = 0
    /\ bjobsClosed = FALSE /\ bw = <<>> /\ bchan = <<>> /\ ball = <<>>
    /\ bret = Nil
    /\ kmode = Nil /\ kcpu = 0 /\ kconc = 0 /\ kn = 0 /\ klimit = 0 /\ kq = 0
    /\ ksel = 0 /\ kping = 0 /\ kdone = 0 /\ kctx = Nil /\ kpc = "idle"
    /\ ckind = Nil /\ c4 = Nil /\ c6 = Nil /\ cerrs = <<>> /\ cuse = Nil
    /\ qreplies = <<>> /\ qstats = NilRec /\ qres = NilRec
    /\ ptarget = <<>> /\ poptPort = 0 /\ pmode = Nil /\ ppc = "idle" /\ phost = <<>>
    /\ pport = 0 /\ perr = Nil /\ plooked = FALSE /\ pout = Nil
    /\ wbase = 0 /\ wnext = 0 /\ wk = 0 /\ wpc = "idle" /\ wpre = Nil /\ wmain = Nil
    /\ wdl = NilRec /\ wwatch = <<>> /\ wexp = FALSE /\ wnet = {} /\ wout = <<>>
    /\ consumer = Nil /\ cons = "idle"

\* the head of Ping: argument checks, resolution, the fresh PingResult
PingStart ==
    /\ pc = "start"
    /\ IF target = ""
       THEN retErr' = ErrInvalidHost /\ result' = NilRec /\ pc' = "done"
       ELSE IF resolves = "error"
       THEN retErr' = ErrResolve /\ result' = NilRec /\ pc' = "done"
       ELSE IF prober = "ICMPPinger" /\ resolves = "v6" /\ ~conn6
       THEN retErr' = ErrNoConn /\ result' = NilRec /\ pc' = "done"
       ELSE /\ result' = [Replies |-> <<>>, Statistics |-> ZeroStatistics,
                          Status |-> StatusSuccess, Error |-> Nil]
            /\ retErr' = Nil
            /\ pc' = "check"
    /\ UNCHANGED <<prober, target, resolves, conn6, count, ctxErr, i, issued>>
    /\ PingFrame

\* an off-by-one loop bound
PingLoopCond_OffByOne(n, cnt) == n <= cnt

\* the loop condition of Ping: for i := 0; i < opts.Count; i++
PingLoopCond(n, cnt) == n < cnt

\* the cancellation exit of the loop: Error and Status set, goto end
CancelExit(r, err) == [r EXCEPT !.Error = err, !.Status = StatusFailure]

\* loop condition, then the non-blocking select on ctx.Done()
PingCheck ==
    /\ pc = "check"
    /\ IF PingLoopCond(i, count)
       THEN IF ctxErr # Nil
            THEN result' = CancelExit(result, ctxErr) /\ pc' = "end"
            ELSE result' = result /\ pc' = "probe"
       ELSE result' = result /\ pc' = "end"
    /\ UNCHANGED <<prober, target, resolves, conn6, count, ctxErr, i, retErr, issued>>
    /\ PingFrame

\* reply := p.pingOnce(ctx, ..., i+1, opts); result.AddReply(reply)
PingProbe ==
    /\ pc = "probe"
    /\ \E o \in Outcomes : result' = AddReply(result, pingOnce(i + 1, o))
    /\ issued' = issued + 1
    /\ IF i < count - 1
       THEN pc' = "interval" /\ i' = i
       ELSE pc' = "check" /\ i' = i + 1
    /\ UNCHANGED <<prober, target, resolves, conn6, count, ctxErr, retErr>>
    /\ PingFrame

\* select { case <-time.After(opts.Interval): ; case <-ctx.Done(): goto end }
PingIntervalElapsed ==
    /\ pc = "interval"
    /\ i' = i + 1 /\ pc' = "check"
    /\ UNCHANGED <<prober, target, resolves, conn6, count, ctxErr, result, retErr, issued>>
    /\ PingFrame

PingIntervalCancelled ==
    /\ pc = "interval"
    /\ ctxErr # Nil
    /\ result' = CancelExit(result, ctxErr) /\ pc' = "end"
    /\ UNCHANGED <<prober, target, resolves, conn6, count, ctxErr, i, retErr, issued>>
    /\ PingFrame

\* partial loss reported as Failure instead of Timeout
FinalStatus_PartialIsFailure(r) ==
    IF r.Statistics.Received < r.Statistics.Sent \/ r.Statistics.Received = 0
    THEN [r EXCEPT !.Status = StatusFailure,
                   !.Error = IF r.Error = Nil THEN ErrNoResponse ELSE r.Error]
    ELSE r

\* the aggregate status set after UpdateStatistics at the end label
FinalStatus(r) ==
    IF r.Statistics.Received = 0
    THEN [r EXCEPT !.Status = StatusFailure,
                   !.Error = IF r.Error = Nil THEN ErrNoResponse ELSE r.Error]
    ELSE IF r.Statistics.Received < r.Statistics.Sent
         THEN [r EXCEPT !.Status = StatusTimeout]
         ELSE r

PingEnd ==
    /\ pc = "end"
    /\ result' = FinalStatus(UpdateStatistics(result))
    /\ pc' = "done"
    /\ UNCHANGED <<prober, target, resolves, conn6, count, ctxErr, i, retErr, issued>>
    /\ PingFrame

\* the caller cancels the context, or its deadline passes, during the call
PingCancel ==
    /\ pc \notin {"idle", "done"}
    /\ ctxErr = Nil
    /\ ctxErr' \in {ErrCanceled, ErrDeadline}
    /\ UNCHANGED <<prober, target, resolves, conn6, count, pc, i, result, retErr, issued>>
    /\ PingFrame

NextPing ==
    \/ PingStart
    \/ PingCheck
    \/ PingProbe
    \/ PingIntervalElapsed
    \/ PingIntervalCancelled
    \/ PingEnd
    \/ PingCancel

SpecPing == InitPing /\ [][NextPing]_vars

(***************************************************************************)
(* A PingResult driven through AddReply and UpdateStatistics.              *)
(***************************************************************************)
InitStats ==
    /\ sres \in {[Replies |-> <<>>, Statistics |-> st] : st \in {NilRec, ZeroStatistics}}
    /\ fresh = FALSE
    \* the other components stay idle
    /\ prober = "TCPPinger" /\ target = "host" /\ resolves = "v4"
    /\ conn6 = FALSE /\ count = 0 /\ ctxErr = Nil /\ pc = "idle" /\ i = 0
    /\ result = NilRec /\ retErr = Nil /\ issued = 0
    /\ scount = 0 /\ sctx = Nil /\ spc = "idle" /\ si = 0 /\ slot = NilRec
    /\ closed = FALSE /\ delivered = <<>> /\ created = 0
    /\ cancelAt = NilRec
    /\ fopts = NilRec /\ rawDenied = FALSE /\ fpc = "idle"
    /\ fpinger = Nil /\ ferr = Nil /\ fin = NilRec
    /\ heap = <<>> /\ nextRef = 1 /\ entries = <<>> /\ now = 0
    /\ held = {} /\ setVal = <<>> /\ gpc = <<>> /\ gloc = <<>>
    /\ got = NilRec
    /\ rpc = "idle" /\ rhost = Nil /\ rver = 0 /\ rlookup = NilRec
    /\ rret = NilRec /\ rerr = Nil /\ rops = <<>>
    /\ topts = NilRec /\ tpc = "idle" /\ ttl = 0 /\ hop = NilRec
    /\ tres = NilRec /\ tretErr = Nil /\ texit = Nil
    /\ ipc = "idle" /\ ictx = Nil /\ iseq = 0 /\ irep = NilRec
    /\ iexpired = FALSE /\ irdl = Nil /\ iwpc = "none" /\ ilast = NilRec
    /\ idisc = 0 /\ icancelAt = Nil /\ iafter = FALSE
    /\ bfmt = Nil /\ bn = 0 /\ bctx = Nil /\ bmain = "idle" /\ bsent = 0
    /\ bjobsClosed = FALSE /\ bw = <<>> /\ bchan = <<>> /\ ball = <<>>
    /\ bret = Nil
    /\ kmode = Nil /\ kcpu = 0 /\ kconc = 0 /\ kn = 0 /\ klimit = 0 /\ kq = 0
    /\ ksel = 0 /\ kping = 0 /\ kdone = 0 /\ kctx = Nil /\ kpc = "idle"
    /\ ckind = Nil /\ c4 = Nil /\ c6 = Nil /\ cerrs = <<>> /\ cuse = Nil
    /\ qreplies = <<>> /\ qstats = NilRec /\ qres = NilRec
    /\ ptarget = <<>> /\ poptPort = 0 /\ pmode = Nil /\ ppc = "idle" /\ phost = <<>>
    /\ pport = 0 /\ perr = Nil /\ plooked = FALSE /\ pout = Nil
    /\ wbase = 0 /\ wnext = 0 /\ wk = 0 /\ wpc = "idle" /\ wpre = Nil /\ wmain = Nil
    /\ wdl = NilRec /\ wwatch = <<>> /\ wexp = FALSE /\ wnet = {} /\ wout = <<>>
    /\ consumer = Nil /\ cons = "idle"

StatsAddReply ==
    /\ Len(sres.Replies) < MaxCount
    /\ \E o \in Outcomes :
          sres' = AddReply(sres, pingOnce(Len(sres.Replies) + 1, o))
    /\ fresh' = FALSE
    /\ StatsFrame

StatsUpdate ==
    /\ sres' = UpdateStatistics(sres)
    /\ fresh' = TRUE
    /\ StatsFrame

NextStats ==
    \/ StatsAddReply
    \/ StatsUpdate

SpecStats == InitStats /\ [][NextStats]_vars

(***************************************************************************)
(* Properties of Ping and of the statistics.                               *)
(***************************************************************************)
Returned == pc = "done" /\ result # NilRec

NumSuccess(replies) ==
    Cardinality({k \in 1..Len(replies) : replies[k].Status = StatusSuccess})

C2_StatisticsDerived ==
    fresh =>
        LET st == sres.Statistics IN
        /\ st.Sent = Len(sres.Replies)
        /\ st.Received = NumSuccess(sres.Replies)
        /\ st.Loss = st.Sent - st.Received
        /\ st.Sent = st.Received + st.Loss
        /\ IF st.Sent > 0
           THEN /\ st.LossRate[2] > 0
                /\ st.LossRate[1] * st.Sent = st.Loss * 100 * st.LossRate[2]
           ELSE st.LossRate = <<0, 1>>
        /\ UpdateStatistics(sres) = sres

C2_Witness ==
    /\ fresh
    /\ sres.Statistics.Sent >= 2
    /\ sres.Statistics.Received >= 1
    /\ sres.Statistics.Loss >= 1

\* C3 as stated: the aggregate Status is Failure when no probe succeeded
\* (Error = ErrNoResponse when no other error is set), Timeout when some but
\* not all succeeded, Success otherwise; probe loss never yields a Go error.
C3_Original ==
    /\ issued > 0 => retErr = Nil
    /\ Returned =>
        LET st == result.Statistics IN
        /\ result.Status =
              IF st.Received = 0 THEN StatusFailure
              ELSE IF st.Received < st.Sent THEN StatusTimeout
              ELSE StatusSuccess
        /\ st.Received = 0 =>
              /\ result.Error # Nil
              /\ ctxErr = Nil => result.Error = ErrNoResponse

\* C3 amended: as above, except that when every recorded probe succeeded the
\* Status is Success only if the loop ran to completion; when the loop was
\* left through a cancellation exit the Status is Failure and Error is the
\* context's error.
C3_AggregateStatus ==
    /\ issued > 0 => retErr = Nil
    /\ Returned =>
        LET st == result.Statistics IN
        /\ result.Status =
              IF st.Received = 0 THEN StatusFailure
              ELSE IF st.Received < st.Sent THEN StatusTimeout
              ELSE IF result.Error = Nil THEN StatusSuccess
              ELSE StatusFailure
        /\ st.Received = 0 =>
              /\ result.Error # Nil
              /\ ctxErr = Nil => result.Error = ErrNoResponse
        /\ st.Received > 0 => result.Error \in {Nil, ctxErr}
        /\ (result.Error # Nil /\ st.Received > 0) => issued < count

C3_Witness ==
    /\ Returned
    /\ result.Statistics.Received = result.Statistics.Sent
    /\ result.Statistics.Sent >= 1
    /\ result.Error = ErrCanceled
    /\ result.Status = StatusFailure

\* C4: when the context is cancelled before all Count probes have been made,
\* Ping returns Status Failure and Error = the context's error, whatever the
\* outcomes of the probes already recorded.
C4_CancelledIsFailure ==
    (Returned /\ ctxErr # Nil /\ issued < count) =>
        /\ result.Status = StatusFailure
        /\ result.Error = ctxErr

\* C5: Ping with Count <= 0 does not return before the context is cancelled.
C5_UnboundedPing ==
    (Returned /\ count <= 0) => ctxErr # Nil

(***************************************************************************)
(* PingStream: the producer goroutine shared by the three probers, the     *)
(* unbuffered replyChan and its consumer.                                  *)
(***************************************************************************)
\* the state right after PingStream has returned replyChan
InitStream ==
    /\ scount \in -1..MaxCount
    /\ sctx = Nil /\ spc = "check" /\ si = 0 /\ slot = NilRec
    /\ closed = FALSE /\ delivered = <<>> /\ created = 0
    /\ cancelAt = NilRec
    \* the other components stay idle
    /\ prober = "TCPPinger" /\ target = "host" /\ resolves = "v4"
    /\ conn6 = FALSE /\ count = 0 /\ ctxErr = Nil /\ pc = "idle" /\ i = 0
    /\ result = NilRec /\ retErr = Nil /\ issued = 0
    /\ sres = NilRec /\ fresh = FALSE
    /\ fopts = NilRec /\ rawDenied = FALSE /\ fpc = "idle"
    /\ fpinger = Nil /\ ferr = Nil /\ fin = NilRec
    /\ heap = <<>> /\ nextRef = 1 /\ entries = <<>> /\ now = 0
    /\ held = {} /\ setVal = <<>> /\ gpc = <<>> /\ gloc = <<>>
    /\ got = NilRec
    /\ rpc = "idle" /\ rhost = Nil /\ rver = 0 /\ rlookup = NilRec
    /\ rret = NilRec /\ rerr = Nil /\ rops = <<>>
    /\ topts = NilRec /\ tpc = "idle" /\ ttl = 0 /\ hop = NilRec
    /\ tres = NilRec /\ tretErr = Nil /\ texit = Nil
    /\ ipc = "idle" /\ ictx = Nil /\ iseq = 0 /\ irep = NilRec
    /\ iexpired = FALSE /\ irdl = Nil /\ iwpc = "none" /\ ilast = NilRec
    /\ idisc = 0 /\ icancelAt = Nil /\ iafter = FALSE
    /\ bfmt = Nil /\ bn = 0 /\ bctx = Nil /\ bmain = "idle" /\ bsent = 0
    /\ bjobsClosed = FALSE /\ bw = <<>> /\ bchan = <<>> /\ ball = <<>>
    /\ bret = Nil
    /\ kmode = Nil /\ kcpu = 0 /\ kconc = 0 /\ kn = 0 /\ klimit = 0 /\ kq = 0
    /\ ksel = 0 /\ kping = 0 /\ kdone = 0 /\ kctx = Nil /\ kpc = "idle"
    /\ ckind = Nil /\ c4 = Nil /\ c6 = Nil /\ cerrs = <<>> /\ cuse = Nil
    /\ qreplies = <<>> /\ qstats = NilRec /\ qres = NilRec
    /\ ptarget = <<>> /\ poptPort = 0 /\ pmode = Nil /\ ppc = "idle" /\ phost = <<>>
    /\ pport = 0 /\ perr = Nil /\ plooked = FALSE /\ pout = Nil
    /\ wbase = 0 /\ wnext = 0 /\ wk = 0 /\ wpc = "idle" /\ wpre = Nil /\ wmain = Nil
    /\ wdl = NilRec /\ wwatch = <<>> /\ wexp = FALSE /\ wnet = {} /\ wout = <<>>
    /\ consumer = Nil /\ cons = "idle"

\* a loop that runs one iteration too many
StreamLoopCond_OffByOne(n, cnt) == cnt <= 0 \/ n <= cnt

\* for i := 0; opts.Count <= 0 || i < opts.Count; i++
StreamLoopCond(n, cnt) == cnt <= 0 \/ n < cnt

\* a producer that never looks at the context
CtxDone_Ignored(err) == FALSE

\* case <-ctx.Done(): the context has been cancelled
CtxDone(err) == err # Nil

\* loop condition, then the non-blocking select on ctx.Done(); an unbounded
\* stream is cut off after MaxStream replies
StreamCheck ==
    /\ spc = "check"
    /\ IF StreamLoopCond(si, scount)
       THEN IF CtxDone(sctx)
            THEN spc' = "exit"
            ELSE (scount > 0 \/ created < MaxStream) /\ spc' = "probe"
       ELSE spc' = "exit"
    /\ UNCHANGED <<scount, sctx, si, slot, closed, delivered, created, cancelAt>>
    /\ StreamFrame

\* reply := p.pingOnce(ctx, ..., i+1, opts); the producer then blocks in
\* replyChan <- reply
StreamProbe ==
    /\ spc = "probe"
    /\ \E o \in Outcomes : slot' = pingOnce(si + 1, o)
    /\ created' = created + 1
    /\ spc' = "send"
    /\ UNCHANGED <<scount, sctx, si, closed, delivered, cancelAt>>
    /\ StreamFrame

\* the rendezvous on the unbuffered channel: the consumer receives the reply
\* and the producer moves on to the interval wait or the next iteration
StreamHandoff ==
    /\ spc = "send"
    /\ delivered' = Append(delivered, slot)
    /\ slot' = NilRec
    /\ IF scount <= 0 \/ si < scount - 1
       THEN spc' = "interval" /\ si' = si
       ELSE spc' = "check" /\ si' = si + 1
    /\ UNCHANGED <<scount, sctx, closed, created, cancelAt>>
    /\ StreamFrame

\* select { case <-time.After(opts.Interval): ; case <-ctx.Done(): return }
StreamIntervalElapsed ==
    /\ spc = "interval"
    /\ si' = si + 1 /\ spc' = "check"
    /\ UNCHANGED <<scount, sctx, slot, closed, delivered, created, cancelAt>>
    /\ StreamFrame

StreamIntervalCancelled ==
    /\ spc = "interval"
    /\ CtxDone(sctx)
    /\ spc' = "exit"
    /\ UNCHANGED <<scount, sctx, si, slot, closed, delivered, created, cancelAt>>
    /\ StreamFrame

\* defer close(replyChan)
StreamClose ==
    /\ spc = "exit"
    /\ closed' = TRUE
    /\ spc' = "done"
    /\ UNCHANGED <<scount, sctx, si, slot, delivered, created, cancelAt>>
    /\ StreamFrame

\* the caller cancels the context, or its deadline passes
StreamCancel ==
    /\ spc \notin {"idle", "done"}
    /\ sctx = Nil
    /\ sctx' \in {ErrCanceled, ErrDeadline}
    /\ cancelAt' = [i |-> si, pc |-> spc, n |-> Len(delivered)]
    /\ UNCHANGED <<scount, spc, si, slot, closed, delivered, created>>
    /\ StreamFrame

NextStream ==
    \/ StreamCheck
    \/ StreamProbe
    \/ StreamHandoff
    \/ StreamIntervalElapsed
    \/ StreamIntervalCancelled
    \/ StreamClose
    \/ StreamCancel

SpecStream == InitStream /\ [][NextStream]_vars

\* the goroutine is scheduled, the timer fires and the caller keeps receiving
FairStream ==
    /\ SpecStream
    /\ WF_vars(StreamCheck)
    /\ WF_vars(StreamProbe)
    /\ WF_vars(StreamHandoff)
    /\ WF_vars(StreamIntervalElapsed)
    /\ WF_vars(StreamClose)

(***************************************************************************)
(* Properties of PingStream.                                               *)
(***************************************************************************)
InFlight == IF slot = NilRec THEN 0 ELSE 1

\* C6: the replies delivered by one PingStream call carry Seq 1, 2, ..., k
\* without gap or duplicate; every reply the producer creates is delivered;
\* probe i+1 is not started before reply i has been received; and k equals
\* Count when the channel is closed without the context being cancelled.
C6_StreamInOrder ==
    /\ \A k \in 1..Len(delivered) : delivered[k].Seq = k
    /\ created = Len(delivered) + InFlight
    /\ slot # NilRec => (spc = "send" /\ slot.Seq = Len(delivered) + 1)
    /\ spc = "probe" => created = Len(delivered)
    /\ closed => (slot = NilRec /\ created = Len(delivered))
    /\ (closed /\ sctx = Nil) => (scount > 0 /\ Len(delivered) = scount)

C6_Witness ==
    /\ closed /\ sctx = Nil /\ scount >= 2
    /\ Len(delivered) = scount

\* the context was cancelled before the producer passed the cancellation
\* check that precedes the last probe of a Count = N stream
CancelledBeforeLastProbe ==
    /\ cancelAt # NilRec
    /\ scount > 0
    /\ \/ cancelAt.i < scount - 1
       \/ cancelAt.i = scount - 1 /\ cancelAt.pc = "check"

\* the context was cancelled when fewer than Count replies had been delivered
CancelledPartWay == cancelAt # NilRec /\ scount > 0 /\ cancelAt.n < scount

StreamEnds ==
    (CtxDone(sctx) \/ (scount > 0 /\ Len(delivered) = scount)) ~> closed

NothingAfterClose == [][closed => delivered' = delivered]_vars

\* C7 as stated: while the caller keeps receiving, the channel is eventually
\* closed once Count replies have been delivered or the context is cancelled;
\* nothing is delivered after the close; a stream cancelled part-way through
\* delivers strictly fewer than Count replies.
C7_Original ==
    /\ StreamEnds
    /\ NothingAfterClose
    /\ [](closed /\ CancelledPartWay => Len(delivered) < scount)

\* C7 amended: the last part holds when the context is cancelled before the
\* producer has passed the cancellation check that precedes the last probe;
\* a later cancellation still lets the last reply through.
C7_StreamCloses ==
    /\ StreamEnds
    /\ NothingAfterClose
    /\ [](closed /\ CancelledBeforeLastProbe => Len(delivered) < scount)
    /\ [](closed /\ scount > 0 => Len(delivered) <= scount)

C7_Witness ==
    /\ closed /\ CancelledBeforeLastProbe
    /\ Len(delivered) >= 1
    /\ Len(delivered) < scount

(***************************************************************************)
(* Factory.Create and the constructors it calls.                           *)
(***************************************************************************)
ErrPermission      == "permission error: raw socket"
ErrUnknownProtocol == "unknown protocol"

\* types.DefaultPingOptions, restricted to the fields Create and the
\* constructors read
DefaultPingOptions == [Protocol |-> ProtocolICMP, Port |-> 0, TOS |-> 0]

\* the state in which Create is about to be called
InitFactory ==
    /\ fopts \in {NilRec} \cup
          [Protocol : {ProtocolICMP, ProtocolTCP, ProtocolHTTP, ProtocolUDP, ""},
           Port : {0, DefaultHTTPPort, DefaultHTTPSPort, 8080},
           TOS : {0, 16}]
    /\ rawDenied \in BOOLEAN
    /\ fpc = "call" /\ fpinger = Nil /\ ferr = Nil /\ fin = fopts
    \* the other components stay idle
    /\ prober = "TCPPinger" /\ target = "host" /\ resolves = "v4"
    /\ conn6 = FALSE /\ count = 0 /\ ctxErr = Nil /\ pc = "idle" /\ i = 0
    /\ result = NilRec /\ retErr = Nil /\ issued = 0
    /\ sres = NilRec /\ fresh = FALSE
    /\ scount = 0 /\ sctx = Nil /\ spc = "idle" /\ si = 0 /\ slot = NilRec
    /\ closed = FALSE /\ delivered = <<>> /\ created = 0
    /\ cancelAt = NilRec
    /\ heap = <<>> /\ nextRef = 1 /\ entries = <<>> /\ now = 0
    /\ held = {} /\ setVal = <<>> /\ gpc = <<>> /\ gloc = <<>>
    /\ got = NilRec
    /\ rpc = "idle" /\ rhost = Nil /\ rver = 0 /\ rlookup = NilRec
    /\ rret = NilRec /\ rerr = Nil /\ rops = <<>>
    /\ topts = NilRec /\ tpc = "idle" /\ ttl = 0 /\ hop = NilRec
    /\ tres = NilRec /\ tretErr = Nil /\ texit = Nil
    /\ ipc = "idle" /\ ictx = Nil /\ iseq = 0 /\ irep = NilRec
    /\ iexpired = FALSE /\ irdl = Nil /\ iwpc = "none" /\ ilast = NilRec
    /\ idisc = 0 /\ icancelAt = Nil /\ iafter = FALSE
    /\ bfmt = Nil /\ bn = 0 /\ bctx = Nil /\ bmain = "idle" /\ bsent = 0
    /\ bjobsClosed = FALSE /\ bw = <<>> /\ bchan = <<>> /\ ball = <<>>
    /\ bret = Nil
    /\ kmode = Nil /\ kcpu = 0 /\ kconc = 0 /\ kn = 0 /\ klimit = 0 /\ kq = 0
    /\ ksel = 0 /\ kping = 0 /\ kdone = 0 /\ kctx = Nil /\ kpc = "idle"
    /\ ckind = Nil /\ c4 = Nil /\ c6 = Nil /\ cerrs = <<>> /\ cuse = Nil
    /\ qreplies = <<>> /\ qstats = NilRec /\ qres = NilRec
    /\ ptarget = <<>> /\ poptPort = 0 /\ pmode = Nil /\ ppc = "idle" /\ phost = <<>>
    /\ pport = 0 /\ perr = Nil /\ plooked = FALSE /\ pout = Nil
    /\ wbase = 0 /\ wnext = 0 /\ wk = 0 /\ wpc = "idle" /\ wpre = Nil /\ wmain = Nil
    /\ wdl = NilRec /\ wwatch = <<>> /\ wexp = FALSE /\ wnet = {} /\ wout = <<>>
    /\ consumer = Nil /\ cons = "idle"

\* NewICMPPinger: icmp.ListenPacket("ip4:icmp") fails -> PermissionError
NewICMPPinger(denied) ==
    IF denied THEN [pinger |-> Nil, err |-> ErrPermission]
    ELSE [pinger |-> "ICMPPinger", err |-> Nil]

\* errors.IsPermissionDenied
IsPermissionDenied(err) == err = ErrPermission

\* a fallback that forgets to rewrite the protocol
FallbackOptions_Unchanged(o) == o

\* the options after the fallback: opts.Protocol = types.ProtocolTCP
FallbackOptions(o) == [o EXCEPT !.Protocol = ProtocolTCP]

\* the result of Create on options o: the pinger, the error and the options
\* as Create leaves them
CreateOn(o, denied) ==
    IF o.Protocol = ProtocolICMP
    THEN LET r == NewICMPPinger(denied) IN
         IF r.err # Nil
         THEN IF IsPermissionDenied(r.err)
              THEN [pinger |-> "TCPPinger", err |-> Nil, opts |-> FallbackOptions(o)]
              ELSE [pinger |-> Nil, err |-> r.err, opts |-> o]
         ELSE [pinger |-> r.pinger, err |-> Nil, opts |-> o]
    ELSE IF o.Protocol = ProtocolTCP
    THEN [pinger |-> "TCPPinger", err |-> Nil, opts |-> o]
    ELSE IF o.Protocol = ProtocolHTTP
    THEN [pinger |-> "HTTPPinger", err |-> Nil, opts |-> o]
    ELSE [pinger |-> Nil, err |-> ErrUnknownProtocol, opts |-> o]

\* Factory.Create(opts); a nil opts is replaced by the defaults, which the
\* caller never sees
Create ==
    /\ fpc = "call"
    /\ LET r == CreateOn(IF fopts = NilRec THEN DefaultPingOptions ELSE fopts,
                         rawDenied)
       IN  /\ fpinger' = r.pinger
           /\ ferr' = r.err
           /\ fopts' = IF fopts = NilRec THEN NilRec ELSE r.opts
    /\ fpc' = "ret"
    /\ UNCHANGED <<rawDenied, fin>>
    /\ FactoryFrame

\* the caller fills in the port afterwards: PingOptions.EnsurePort
GetDefaultPort(protocol, https) ==
    IF protocol = ProtocolTCP THEN DefaultTCPPort
    ELSE IF protocol \in {ProtocolHTTP, ProtocolHTTPS}
    THEN IF https \/ protocol = ProtocolHTTPS THEN DefaultHTTPSPort
         ELSE DefaultHTTPPort
    ELSE 0

EnsurePort ==
    /\ fpc = "ret"
    /\ fopts # NilRec
    /\ ferr = Nil
    /\ \E https \in BOOLEAN :
          fopts' = IF fopts.Port # 0 THEN fopts
                   ELSE [fopts EXCEPT !.Port = GetDefaultPort(fopts.Protocol, https)]
    /\ fpc' = "ported"
    /\ UNCHANGED <<rawDenied, fpinger, ferr, fin>>
    /\ FactoryFrame

NextFactory ==
    \/ Create
    \/ EnsurePort

SpecFactory == InitFactory /\ [][NextFactory]_vars

(***************************************************************************)
(* Properties of the factory.                                              *)
(***************************************************************************)
Created == fpc = "ret" /\ fin # NilRec

\* C8: Create with Protocol = icmp and ICMP construction denied returns a
\* TCPPinger and a nil error and leaves options.Protocol rewritten to tcp;
\* with tcp or http the matching prober is built and the options are left
\* alone; an unknown protocol yields an error and no prober.
C8_CreateDispatch ==
    Created =>
        /\ (fin.Protocol = ProtocolICMP /\ rawDenied) =>
              /\ fpinger = "TCPPinger" /\ ferr = Nil
              /\ fopts.Protocol = ProtocolTCP
        /\ (fin.Protocol = ProtocolICMP /\ ~rawDenied) =>
              (fpinger = "ICMPPinger" /\ ferr = Nil /\ fopts = fin)
        /\ fin.Protocol = ProtocolTCP =>
              (fpinger = "TCPPinger" /\ ferr = Nil /\ fopts = fin)
        /\ fin.Protocol = ProtocolHTTP =>
              (fpinger = "HTTPPinger" /\ ferr = Nil /\ fopts = fin)
        /\ fin.Protocol \notin {ProtocolICMP, ProtocolTCP, ProtocolHTTP} =>
              (fpinger = Nil /\ ferr # Nil /\ fopts = fin)

C8_Witness ==
    /\ Created /\ fin.Protocol = ProtocolICMP /\ rawDenied
    /\ fpinger = "TCPPinger" /\ fopts.Protocol = ProtocolTCP

\* C9: when the ICMP-to-TCP fallback happens and options.Port is unset (0),
\* options.Port is the default TCP port, hence non-zero, when Create returns.
C9_FallbackAssignsPort ==
    (Created /\ fin.Protocol = ProtocolICMP /\ rawDenied /\ fin.Port = 0) =>
        (fopts.Port = DefaultTCPPort /\ fopts.Port # 0)

(***************************************************************************)
(* netutil.dnsCache: get, set and cloneHost, with the Hosts on a heap so   *)
(* that aliasing between the cache and its callers is visible.             *)
(***************************************************************************)
defaultDNSTTL == 2    \* the cache TTL, in clock ticks

Goroutines == {"g1", "g2"}
HostNames  == {"Example.COM", "example.com"}
IPs        == {"1.1.1.1", "9.9.9.9"}
IPv4       == 4
IPvAny     == 0
Refs       == 1..MaxRefs

\* strings.ToLower on the host names of the model
ToLower(h) == IF h = "Example.COM" THEN "example.com" ELSE h

\* cacheKey: strings.ToLower(host) + "|" + strconv.Itoa(int(version))
cacheKey(host, version) == <<ToLower(host), version>>

Keys == {cacheKey(h, v) : h \in HostNames, v \in {IPv4}}

HostValues == [Hostname : {"example.com"}, IP : IPs, IPVersion : {IPv4}]

NoEntry == [ok |-> FALSE]

InitCache ==
    /\ heap = [r \in Refs |-> NilRec]
    /\ nextRef = 1
    /\ entries = [k \in Keys |-> NoEntry]
    /\ now = 0
    /\ held = {}
    /\ setVal = [k \in Keys |-> NilRec]
    /\ gpc = [g \in Goroutines |-> "idle"]
    /\ gloc = [g \in Goroutines |-> NilRec]
    /\ got = NilRec
    \* the other components stay idle
    /\ prober = "TCPPinger" /\ target = "host" /\ resolves = "v4"
    /\ conn6 = FALSE /\ count = 0 /\ ctxErr = Nil /\ pc = "idle" /\ i = 0
    /\ result = NilRec /\ retErr = Nil /\ issued = 0
    /\ sres = NilRec /\ fresh = FALSE
    /\ scount = 0 /\ sctx = Nil /\ spc = "idle" /\ si = 0 /\ slot = NilRec
    /\ closed = FALSE /\ delivered = <<>> /\ created = 0
    /\ cancelAt = NilRec
    /\ fopts = NilRec /\ rawDenied = FALSE /\ fpc = "idle"
    /\ fpinger = Nil /\ ferr = Nil /\ fin = NilRec
    /\ rpc = "idle" /\ rhost = Nil /\ rver = 0 /\ rlookup = NilRec
    /\ rret = NilRec /\ rerr = Nil /\ rops = <<>>
    /\ topts = NilRec /\ tpc = "idle" /\ ttl = 0 /\ hop = NilRec
    /\ tres = NilRec /\ tretErr = Nil /\ texit = Nil
    /\ ipc = "idle" /\ ictx = Nil /\ iseq = 0 /\ irep = NilRec
    /\ iexpired = FALSE /\ irdl = Nil /\ iwpc = "none" /\ ilast = NilRec
    /\ idisc = 0 /\ icancelAt = Nil /\ iafter = FALSE
    /\ bfmt = Nil /\ bn = 0 /\ bctx = Nil /\ bmain = "idle" /\ bsent = 0
    /\ bjobsClosed = FALSE /\ bw = <<>> /\ bchan = <<>> /\ ball = <<>>
    /\ bret = Nil
    /\ kmode = Nil /\ kcpu = 0 /\ kconc = 0 /\ kn = 0 /\ klimit = 0 /\ kq = 0
    /\ ksel = 0 /\ kping = 0 /\ kdone = 0 /\ kctx = Nil /\ kpc = "idle"
    /\ ckind = Nil /\ c4 = Nil /\ c6 = Nil /\ cerrs = <<>> /\ cuse = Nil
    /\ qreplies = <<>> /\ qstats = NilRec /\ qres = NilRec
    /\ ptarget = <<>> /\ poptPort = 0 /\ pmode = Nil /\ ppc = "idle" /\ phost = <<>>
    /\ pport = 0 /\ perr = Nil /\ plooked = FALSE /\ pout = Nil
    /\ wbase = 0 /\ wnext = 0 /\ wk = 0 /\ wpc = "idle" /\ wpre = Nil /\ wmain = Nil
    /\ wdl = NilRec /\ wwatch = <<>> /\ wexp = FALSE /\ wnet = {} /\ wout = <<>>
    /\ consumer = Nil /\ cons = "idle"

\* a clone that hands back the very object it was given
cloneHost_Alias(r, free) == r

\* cloneHost: cloned := *h; return &cloned -- the address of the copy
cloneHost(r, free) == free

\* the heap after cloneHost(r) has returned address c
HeapAfterClone(h, r, c) == [h EXCEPT ![c] = h[r]]

\* the addresses the cache owns
CacheRefs == {entries[k].host : k \in {x \in Keys : entries[x].ok}}

\* a caller writes to a Host it holds
CallerMutate ==
    /\ \E r \in held, ip \in IPs :
          /\ heap[r].IP # ip
          /\ heap' = [heap EXCEPT ![r].IP = ip]
    /\ UNCHANGED <<nextRef, entries, now, held, setVal, gpc, gloc, got>>
    /\ CacheFrame

\* a caller builds a Host at address r (resolved := &types.Host{...} in
\* ResolveHost, original in the cache test), passes it to dnsCache.set(key,
\* host) and keeps it; the body of set runs under c.mu.Lock()
CacheSet ==
    /\ nextRef + 1 <= MaxRefs
    /\ \E k \in Keys, v \in HostValues :
          LET r == nextRef
              c == cloneHost(r, nextRef + 1)
              h == [heap EXCEPT ![r] = v]
          IN  /\ heap' = HeapAfterClone(h, r, c)
              /\ entries' = [entries EXCEPT ![k] =
                    [ok |-> TRUE, host |-> c, expiresAt |-> now + defaultDNSTTL,
                     stored |-> v]]
              /\ setVal' = [setVal EXCEPT ![k] = v]
              /\ held' = held \cup {r}
    /\ nextRef' = nextRef + 2
    /\ UNCHANGED <<now, gpc, gloc, got>>
    /\ CacheFrame

\* get, first part: now := time.Now(); the read of c.entries[key] under RLock
GetRead ==
    /\ \E g \in Goroutines, k \in Keys :
          /\ gpc[g] = "idle"
          /\ gpc' = [gpc EXCEPT ![g] = "decide"]
          /\ gloc' = [gloc EXCEPT ![g] = [key |-> k, now |-> now, entry |-> entries[k]]]
    /\ UNCHANGED <<heap, nextRef, entries, now, held, setVal, got>>
    /\ CacheFrame

\* an expiry test that also fires at the expiry instant
After_OrAt(a, b) == a >= b

\* now.After(t)
After(a, b) == a > b

\* get, second part: miss, lazy eviction under Lock, or a clone of the entry
GetDecide ==
    /\ \E g \in Goroutines :
          /\ gpc[g] = "decide"
          /\ LET l == gloc[g] IN
             IF ~l.entry.ok
             THEN /\ got' = [key |-> l.key, ok |-> FALSE]
                  /\ UNCHANGED <<heap, nextRef, entries, held>>
             ELSE IF After(l.now, l.entry.expiresAt)
             THEN /\ entries' =
                        IF entries[l.key].ok /\ After(l.now, entries[l.key].expiresAt)
                        THEN [entries EXCEPT ![l.key] = NoEntry]
                        ELSE entries
                  /\ got' = [key |-> l.key, ok |-> FALSE]
                  /\ UNCHANGED <<heap, nextRef, held>>
             ELSE /\ nextRef <= MaxRefs
                  /\ LET c == cloneHost(l.entry.host, nextRef) IN
                     /\ heap' = HeapAfterClone(heap, l.entry.host, c)
                     /\ held' = held \cup {c}
                     /\ got' = [key |-> l.key, ok |-> TRUE,
                                value |-> heap'[c], stored |-> l.entry.stored,
                                aliased |-> c \in held \cup CacheRefs,
                                dirty |-> \E r \in held : heap[r] # l.entry.stored]
                  /\ nextRef' = nextRef + 1
                  /\ UNCHANGED entries
          /\ gpc' = [gpc EXCEPT ![g] = "idle"]
          /\ gloc' = [gloc EXCEPT ![g] = NilRec]
    /\ UNCHANGED <<now, setVal>>
    /\ CacheFrame

\* time passes
Tick ==
    /\ now < MaxTime
    /\ now' = now + 1
    /\ UNCHANGED <<heap, nextRef, entries, held, setVal, gpc, gloc, got>>
    /\ CacheFrame

NextCache ==
    \/ CallerMutate
    \/ CacheSet
    \/ GetRead
    \/ GetDecide
    \/ Tick

SpecCache == InitCache /\ [][NextCache]_vars

(***************************************************************************)
(* Properties of the resolver cache.                                       *)
(***************************************************************************)
\* C10: the cache never shares a live Host with a caller: whatever callers
\* do to the Hosts they passed to set or got from get, the Host an entry
\* holds equals the value given at set time and is no Host a caller holds,
\* and a hit returns a Host equal to that value at an address that was
\* neither handed out before nor owned by the cache.
C10_NoSharedHost ==
    /\ \A k \in Keys : entries[k].ok =>
          /\ entries[k].host \notin held
          /\ heap[entries[k].host] = entries[k].stored
          /\ entries[k].stored = setVal[k]
    /\ \A g \in Goroutines : (gpc[g] = "decide" /\ gloc[g].entry.ok) =>
          heap[gloc[g].entry.host] = gloc[g].entry.stored
    /\ (got # NilRec /\ got.ok) =>
          (got.value = got.stored /\ ~got.aliased)

\* a hit at a moment when a Host held by a caller differs from the stored one
C10_Witness ==
    /\ got # NilRec /\ got.ok /\ got.dirty
    /\ got.value = got.stored

\* the step in which goroutine g's call of get returns
GetReturns(g) == gpc[g] = "decide" /\ gpc'[g] = "idle"

\* the step is a set that stores a new entry under key k
IsSetOf(k) ==
    /\ entries'[k].ok
    /\ entries'[k].host = nextRef + 1
    /\ entries'[k].expiresAt = now + defaultDNSTTL
    /\ nextRef' = nextRef + 2

\* an entry changes only by an evicting get of its key or by a set of its key
OnlyEvictedOrReplaced ==
    \A k \in Keys : (entries[k].ok /\ entries'[k] # entries[k]) =>
        \/ /\ ~entries'[k].ok
           /\ \E g \in Goroutines :
                 /\ GetReturns(g) /\ gloc[g].key = k /\ gloc[g].entry.ok
                 /\ gloc[g].now > entries[k].expiresAt
        \/ IsSetOf(k)

\* C11 as stated: an entry with expiry = t + d is returned by get only while
\* the time get read is before the expiry, and a get that observes the entry
\* at now >= expiry reports a miss and removes it; an entry changes in no
\* other way than by such a get or by a set of its key.
C11_Original ==
    [][ /\ \A g \in Goroutines : (GetReturns(g) /\ gloc[g].entry.ok) =>
              LET l == gloc[g] IN
              /\ got'.ok <=> l.now < l.entry.expiresAt
              /\ (l.now >= l.entry.expiresAt /\ entries[l.key] = l.entry) =>
                    ~entries'[l.key].ok
        /\ OnlyEvictedOrReplaced ]_vars

\* C11, amended: the expiry instant itself still counts as live. A get that
\* read the clock at now <= expiry returns the entry; a get that read it at
\* now > expiry reports a miss and removes the entry it observed (unless a set
\* replaced it meanwhile); an entry changes in no other way than by such a
\* get or by a set of its key.
C11_EntryLifetime ==
    [][ /\ \A g \in Goroutines : (GetReturns(g) /\ gloc[g].entry.ok) =>
              LET l == gloc[g] IN
              /\ got'.ok <=> l.now <= l.entry.expiresAt
              /\ (l.now > l.entry.expiresAt /\ entries[l.key] = l.entry) =>
                    ~entries'[l.key].ok
        /\ OnlyEvictedOrReplaced ]_vars

\* a key that was set, whose entry a get has evicted after its expiry
C11_Witness ==
    /\ \E k \in Keys : setVal[k] # NilRec /\ ~entries[k].ok
    /\ got # NilRec /\ ~got.ok
    /\ now > defaultDNSTTL

(***************************************************************************)
(* netutil.ResolveHost over the default cache. One caller at a time; Hosts *)
(* are handled by value here (aliasing is the subject of the cache         *)
(* specification above).                                                   *)
(***************************************************************************)
MaxAddrs == 2         \* longest address list net.LookupIP returns

IPv6 == 6
ErrDNSResolution == "dns resolution failed"
ErrNoAddress     == "no address available"

\* the host arguments: two spellings of one name and three IP literals
ResolveNames    == {"Example.COM", "example.com"}
ResolveLiterals == {"127.0.0.1", "::1", "::ffff:1.1.1.1"}
IPVersions      == {IPvAny, IPv4, IPv6}

\* net.ParseIP: nil for a name; for a literal the address, given by its
\* ip.String() text (s) and by whether ip.To4() is non-nil (v4)
ParseIP(h) ==
    CASE h = "127.0.0.1"      -> [s |-> "127.0.0.1", v4 |-> TRUE]
      [] h = "::1"            -> [s |-> "::1", v4 |-> FALSE]
      [] h = "::ffff:1.1.1.1" -> [s |-> "1.1.1.1", v4 |-> TRUE]
      [] OTHER                -> NilRec

\* the addresses a lookup can yield
LookupAddrs == {[s |-> "1.1.1.1", v4 |-> TRUE], [s |-> "2001:db8::1", v4 |-> FALSE]}

\* net.LookupIP: an error, or a list of addresses (possibly empty)
LookupResults ==
    {[ok |-> FALSE]} \cup
    {[ok |-> TRUE, ips |-> l] :
        l \in UNION {[1..n -> LookupAddrs] : n \in 0..MaxAddrs}}

\* ver := IPv4; if ip.To4() == nil { ver = IPv6 }
VersionOf(ip) == IF ip.v4 THEN IPv4 ELSE IPv6

\* &types.Host{Hostname: host, IP: ip.String(), IPVersion: ver}
HostOf(h, ip) == [Hostname |-> h, IP |-> ip.s, IPVersion |-> VersionOf(ip)]

\* the loop of selectIPByVersion: for _, ip := range ips { switch version }
RECURSIVE ScanIPs(_, _)
ScanIPs(ips, version) ==
    IF ips = <<>> THEN NilRec
    ELSE LET ip == Head(ips) IN
         CASE version = IPv4 ->
                IF ip.v4 THEN ip ELSE ScanIPs(Tail(ips), version)
           [] version = IPv6 ->
                IF ~ip.v4 THEN ip ELSE ScanIPs(Tail(ips), version)
           [] OTHER -> ip

\* a selection that ignores the preference
selectIPByVersion_First(ips, version) == ScanIPs(ips, IPvAny)

\* selectIPByVersion(ips, version)
selectIPByVersion(ips, version) == ScanIPs(ips, version)

ResolveKeys == {cacheKey(h, v) : h \in ResolveNames, v \in IPVersions}

ResolveFrame ==
    UNCHANGED <<pingVars, statsVars, streamVars, factVars, traceVars, icmpVars,
                batchVars, fanVars, closeVars, rttVars, tcpVars,
                sockVars, consVars, heap, nextRef, held, setVal, gpc, gloc, got>>

InitResolve ==
    /\ rpc = "idle" /\ rhost = Nil /\ rver = IPvAny /\ rlookup = NilRec
    /\ rret = NilRec /\ rerr = Nil /\ rops = <<>>
    /\ entries = [k \in ResolveKeys |-> NoEntry]
    /\ now = 0
    \* the other components stay idle
    /\ heap = <<>> /\ nextRef = 1 /\ held = {} /\ setVal = <<>>
    /\ gpc = <<>> /\ gloc = <<>> /\ got = NilRec
    /\ prober = "TCPPinger" /\ target = "host" /\ resolves = "v4"
    /\ conn6 = FALSE /\ count = 0 /\ ctxErr = Nil /\ pc = "idle" /\ i = 0
    /\ result = NilRec /\ retErr = Nil /\ issued = 0
    /\ sres = NilRec /\ fresh = FALSE
    /\ scount = 0 /\ sctx = Nil /\ spc = "idle" /\ si = 0 /\ slot = NilRec
    /\ closed = FALSE /\ delivered = <<>> /\ created = 0
    /\ cancelAt = NilRec
    /\ fopts = NilRec /\ rawDenied = FALSE /\ fpc = "idle"
    /\ fpinger = Nil /\ ferr = Nil /\ fin = NilRec
    /\ topts = NilRec /\ tpc = "idle" /\ ttl = 0 /\ hop = NilRec
    /\ tres = NilRec /\ tretErr = Nil /\ texit = Nil
    /\ ipc = "idle" /\ ictx = Nil /\ iseq = 0 /\ irep = NilRec
    /\ iexpired = FALSE /\ irdl = Nil /\ iwpc = "none" /\ ilast = NilRec
    /\ idisc = 0 /\ icancelAt = Nil /\ iafter = FALSE
    /\ bfmt = Nil /\ bn = 0 /\ bctx = Nil /\ bmain = "idle" /\ bsent = 0
    /\ bjobsClosed = FALSE /\ bw = <<>> /\ bchan = <<>> /\ ball = <<>>
    /\ bret = Nil
    /\ kmode = Nil /\ kcpu = 0 /\ kconc = 0 /\ kn = 0 /\ klimit = 0 /\ kq = 0
    /\ ksel = 0 /\ kping = 0 /\ kdone = 0 /\ kctx = Nil /\ kpc = "idle"
    /\ ckind = Nil /\ c4 = Nil /\ c6 = Nil /\ cerrs = <<>> /\ cuse = Nil
    /\ qreplies = <<>> /\ qstats = NilRec /\ qres = NilRec
    /\ ptarget = <<>> /\ poptPort = 0 /\ pmode = Nil /\ ppc = "idle" /\ phost = <<>>
    /\ pport = 0 /\ perr = Nil /\ plooked = FALSE /\ pout = Nil
    /\ wbase = 0 /\ wnext = 0 /\ wk = 0 /\ wpc = "idle" /\ wpre = Nil /\ wmain = Nil
    /\ wdl = NilRec /\ wwatch = <<>> /\ wexp = FALSE /\ wnet = {} /\ wout = <<>>
    /\ consumer = Nil /\ cons = "idle"

\* ResolveHost(host, ipVersion) up to the literal test: a literal returns at
\* once, a name goes on to the cache
ResolveCall ==
    /\ rpc = "idle"
    /\ \E h \in ResolveNames \cup ResolveLiterals, v \in IPVersions :
          /\ rhost' = h
          /\ rver' = v
          /\ LET ip == ParseIP(h) IN
             IF ip # NilRec
             THEN /\ rret' = HostOf(h, ip)
                  /\ rpc' = "done"
             ELSE /\ rret' = NilRec
                  /\ rpc' = "get"
    /\ rlookup' = NilRec /\ rerr' = Nil /\ rops' = <<>>
    /\ UNCHANGED <<entries, now>>
    /\ ResolveFrame

\* defaultDNSCache.get(cacheKey(host, ipVersion)): a hit returns the cached
\* Host, an expired entry is evicted, a miss goes on to the lookup
ResolveGet ==
    /\ rpc = "get"
    /\ LET key == cacheKey(rhost, rver)
           entry == entries[key]
       IN  IF ~entry.ok
           THEN /\ rpc' = "lookup"
                /\ UNCHANGED <<entries, rret>>
           ELSE IF After(now, entry.expiresAt)
           THEN /\ entries' = [entries EXCEPT ![key] = NoEntry]
                /\ rpc' = "lookup"
                /\ UNCHANGED rret
           ELSE /\ rret' = entry.stored
                /\ rpc' = "done"
                /\ UNCHANGED entries
    /\ rops' = Append(rops, "get")
    /\ UNCHANGED <<rhost, rver, rlookup, rerr, now>>
    /\ ResolveFrame

\* net.LookupIP, selectIPByVersion and, on success, defaultDNSCache.set
ResolveLookup ==
    /\ rpc = "lookup"
    /\ \E res \in LookupResults :
          /\ rlookup' = res
          /\ IF ~res.ok
             THEN /\ rerr' = ErrDNSResolution
                  /\ UNCHANGED <<rret, entries, rops>>
             ELSE IF Len(res.ips) = 0
             THEN /\ rerr' = ErrNoAddress
                  /\ UNCHANGED <<rret, entries, rops>>
             ELSE LET selectedIP == selectIPByVersion(res.ips, rver) IN
                  IF selectedIP = NilRec
                  THEN /\ rerr' = ErrNoAddress
                       /\ UNCHANGED <<rret, entries, rops>>
                  ELSE LET resolved == HostOf(rhost, selectedIP) IN
                       /\ entries' = [entries EXCEPT ![cacheKey(rhost, rver)] =
                             [ok |-> TRUE, stored |-> resolved,
                              expiresAt |-> now + defaultDNSTTL]]
                       /\ rops' = Append(rops, "set")
                       /\ rret' = resolved
                       /\ rerr' = Nil
    /\ rpc' = "done"
    /\ UNCHANGED <<rhost, rver, now>>
    /\ ResolveFrame

\* the caller takes the result
ResolveReturn ==
    /\ rpc = "done"
    /\ rpc' = "idle"
    /\ UNCHANGED <<rhost, rver, rlookup, rret, rerr, rops, entries, now>>
    /\ ResolveFrame

\* time passes
ResolveTick ==
    /\ now < MaxTime
    /\ now' = now + 1
    /\ UNCHANGED <<resolveVars, entries>>
    /\ ResolveFrame

NextResolve ==
    \/ ResolveCall
    \/ ResolveGet
    \/ ResolveLookup
    \/ ResolveReturn
    \/ ResolveTick

SpecResolve == InitResolve /\ [][NextResolve]_vars

(***************************************************************************)
(* Properties of ResolveHost.                                              *)
(***************************************************************************)
\* an address satisfies a preference
MatchesPreference(ip, v) ==
    (v = IPv4 => ip.v4) /\ (v = IPv6 => ~ip.v4)

\* the positions of a looked-up list whose address satisfies the preference
MatchingPositions(ips, v) ==
    {j \in 1..Len(ips) : MatchesPreference(ips[j], v)}

\* the least element of a non-empty set of positions
First(S) == CHOOSE j \in S : \A k \in S : j <= k

\* C12: ResolveHost returns, for a literal IP, that IP with the version of
\* the literal whatever the preference, without reading or changing the
\* cache; for a name, the cached Host on a hit and otherwise the first
\* looked-up address that matches the preference, NoAddress when none
\* matches; and it stores an entry, under (lowercase(host), preference),
\* only when it succeeds after a lookup.
C12_ResolveHost ==
    [][ /\ (rpc # "done" /\ rpc' = "done") =>
            LET h == rhost'
                v == rver'
                lit == ParseIP(h)
                key == <<ToLower(h), v>>
            IN  IF lit # NilRec
                THEN /\ rerr' = Nil
                     /\ rret' = [Hostname |-> h, IP |-> lit.s,
                                 IPVersion |-> IF lit.v4 THEN IPv4 ELSE IPv6]
                     /\ rops' = <<>>
                     /\ entries' = entries
                ELSE IF rlookup' = NilRec
                THEN /\ rerr' = Nil
                     /\ entries[key].ok
                     /\ rret' = entries[key].stored
                     /\ entries' = entries
                ELSE IF ~rlookup'.ok
                THEN /\ rerr' = ErrDNSResolution
                     /\ rret' = NilRec
                     /\ entries' = entries
                ELSE LET ips == rlookup'.ips
                         idx == MatchingPositions(ips, v)
                     IN  IF idx = {}
                         THEN /\ rerr' = ErrNoAddress
                              /\ rret' = NilRec
                              /\ entries' = entries
                         ELSE LET ip == ips[First(idx)] IN
                              /\ rerr' = Nil
                              /\ rret' = [Hostname |-> h, IP |-> ip.s,
                                          IPVersion |-> IF ip.v4 THEN IPv4 ELSE IPv6]
                              /\ entries' = [entries EXCEPT ![key] =
                                    [ok |-> TRUE, stored |-> rret',
                                     expiresAt |-> now + defaultDNSTTL]]
        /\ \A k \in ResolveKeys :
              (entries'[k] # entries[k] /\ entries'[k].ok) =>
                 /\ rpc = "lookup" /\ rpc' = "done" /\ rerr' = Nil
                 /\ k = <<ToLower(rhost), rver>> ]_vars

\* a lookup that lists an IPv6 address first, resolved with preference IPv4:
\* the second address is returned and cached
C12_Witness ==
    /\ rpc = "done" /\ rerr = Nil /\ rver = IPv4
    /\ rlookup # NilRec /\ rlookup.ok
    /\ Len(rlookup.ips) = 2 /\ ~rlookup.ips[1].v4
    /\ rret.IP = "1.1.1.1"
    /\ entries[<<"example.com", IPv4>>].ok
    /\ rops = <<"get", "set">>

(***************************************************************************)
(* trace.ICMPTracer: Trace, traceHop and probeOnce, with the result types  *)
(* TraceResult / TraceHop / TraceProbe. peer.String() is taken as the IP   *)
(* text of the responder; RTTs and reverse DNS names are left out.         *)
(***************************************************************************)
MaxTraceHops == 8     \* largest opts.MaxHops explored

HeuristicAfter  == 5  \* ttl > opts.FirstTTL+5
HeuristicWindow == 5  \* i >= len(result.Hops)-5

TargetIP == "192.0.2.1"     \* hostInfo.IP, the resolved target
RouterIP == "10.0.0.1"      \* a router on the path

\* the options the trace command accepts: 1 <= FirstTTL <= MaxHops and
\* Queries >= 1; runs with two queries per hop are kept to two hops
TraceConfigs ==
    {o \in [FirstTTL : 1..2, MaxHops : 1..MaxTraceHops, Queries : 1..2] :
        /\ o.FirstTTL <= o.MaxHops
        /\ o.Queries = 2 => o.MaxHops <= o.FirstTTL + 1}

\* what ends one probeOnce: the message that is accepted, the read timing
\* out, or an error of the socket
TraceEvents ==
    {[kind |-> "echo", from |-> TargetIP],
     [kind |-> "timex", from |-> RouterIP],
     [kind |-> "unreach", from |-> RouterIP],
     [kind |-> "timeout", from |-> ""]}

\* probeOnce(ctx, targetIP, ttl, seq, opts): the probe it returns; kind and
\* from keep what was received
probeOnce(seq, ev) ==
    CASE ev.kind \in {"echo", "timex"} ->
            [Seq |-> seq, IP |-> ev.from, Status |-> StatusSuccess,
             kind |-> ev.kind, from |-> ev.from]
      [] ev.kind = "unreach" ->
            [Seq |-> seq, IP |-> ev.from, Status |-> StatusFailure,
             kind |-> ev.kind, from |-> ev.from]
      [] ev.kind = "timeout" ->
            [Seq |-> seq, IP |-> "", Status |-> StatusTimeout,
             kind |-> ev.kind, from |-> ev.from]
      [] OTHER ->
            [Seq |-> seq, IP |-> "", Status |-> StatusFailure,
             kind |-> ev.kind, from |-> ev.from]

\* TraceHop.GetSuccessCount
GetSuccessCount(h) ==
    Cardinality({j \in 1..Len(h.Probes) : h.Probes[j].Status = StatusSuccess})

\* hop := &types.TraceHop{TTL: ttl, Probes: make(...)}
NewHop(t) == [TTL |-> t, Probes |-> <<>>, IP |-> "", IsDestination |-> FALSE]

\* a loop body that marks the hop on any successful probe
RecordProbe_AnySuccess(h, probe) ==
    LET h1 == [h EXCEPT !.Probes = Append(@, probe)] IN
    IF probe.Status = StatusSuccess
    THEN [h1 EXCEPT !.IP = IF @ = "" THEN probe.IP ELSE @, !.IsDestination = TRUE]
    ELSE h1

\* the body of traceHop's loop after probeOnce: append the probe; the first
\* successful probe gives the hop its IP and decides IsDestination
RecordProbe(h, probe) ==
    LET h1 == [h EXCEPT !.Probes = Append(@, probe)] IN
    IF probe.Status = StatusSuccess /\ h1.IP = ""
    THEN [h1 EXCEPT !.IP = probe.IP,
                    !.IsDestination = IF probe.IP = TargetIP THEN TRUE ELSE @]
    ELSE h1

\* an AddHop that forgets the counter
AddHop_StaleCount(r, h) == [r EXCEPT !.Hops = Append(@, h)]

\* TraceResult.AddHop
AddHop(r, h) ==
    [r EXCEPT !.Hops = Append(@, h), !.HopCount = Len(r.Hops) + 1]

\* lastFiveAllFailed: the scan from the last hop down over at most five hops
LastFiveAllFailed(hops) ==
    \A k \in 0..(Len(hops) - 1) :
        k >= Len(hops) - HeuristicWindow => GetSuccessCount(hops[k + 1]) = 0

\* a heuristic that looks at the current hop only
HeuristicFires_CurrentOnly(hops, t, o) ==
    /\ GetSuccessCount(hops[Len(hops)]) = 0
    /\ t > o.FirstTTL + HeuristicAfter

\* the early exit of Trace after a hop without a successful probe
HeuristicFires(hops, t, o) ==
    /\ GetSuccessCount(hops[Len(hops)]) = 0
    /\ t > o.FirstTTL + HeuristicAfter
    /\ LastFiveAllFailed(hops)

\* a loop that runs one TTL too far
LoopContinues_OneMore(t, o) == t <= o.MaxHops + 1

\* for ttl := opts.FirstTTL; ttl <= opts.MaxHops; ttl++
LoopContinues(t, o) == t <= o.MaxHops

\* a status that follows the probes of the hops
TraceStatus_ByHops(r) ==
    IF r.ReachedDestination THEN StatusSuccess
    ELSE IF \A k \in 1..Len(r.Hops) : GetSuccessCount(r.Hops[k]) = 0
    THEN StatusFailure
    ELSE StatusTimeout

\* the status Trace assigns after the loop (result.Status starts as Success)
TraceStatus(r) ==
    IF ~r.ReachedDestination /\ r.HopCount = 0 THEN StatusFailure
    ELSE IF ~r.ReachedDestination THEN StatusTimeout
    ELSE r.Status

TraceFrame ==
    UNCHANGED <<pingVars, statsVars, streamVars, factVars, cacheVars, resolveVars,
                icmpVars, batchVars, fanVars,
                closeVars, rttVars, tcpVars, sockVars, consVars>>

InitTrace ==
    /\ topts = NilRec /\ tpc = "idle" /\ ttl = 0 /\ hop = NilRec
    /\ tres = NilRec /\ tretErr = Nil /\ texit = Nil
    \* the other components stay idle
    /\ prober = "TCPPinger" /\ target = "host" /\ resolves = "v4"
    /\ conn6 = FALSE /\ count = 0 /\ ctxErr = Nil /\ pc = "idle" /\ i = 0
    /\ result = NilRec /\ retErr = Nil /\ issued = 0
    /\ sres = NilRec /\ fresh = FALSE
    /\ scount = 0 /\ sctx = Nil /\ spc = "idle" /\ si = 0 /\ slot = NilRec
    /\ closed = FALSE /\ delivered = <<>> /\ created = 0
    /\ cancelAt = NilRec
    /\ fopts = NilRec /\ rawDenied = FALSE /\ fpc = "idle"
    /\ fpinger = Nil /\ ferr = Nil /\ fin = NilRec
    /\ heap = <<>> /\ nextRef = 1 /\ entries = <<>> /\ now = 0
    /\ held = {} /\ setVal = <<>> /\ gpc = <<>> /\ gloc = <<>>
    /\ got = NilRec
    /\ rpc = "idle" /\ rhost = Nil /\ rver = 0 /\ rlookup = NilRec
    /\ rret = NilRec /\ rerr = Nil /\ rops = <<>>
    /\ ipc = "idle" /\ ictx = Nil /\ iseq = 0 /\ irep = NilRec
    /\ iexpired = FALSE /\ irdl = Nil /\ iwpc = "none" /\ ilast = NilRec
    /\ idisc = 0 /\ icancelAt = Nil /\ iafter = FALSE
    /\ bfmt = Nil /\ bn = 0 /\ bctx = Nil /\ bmain = "idle" /\ bsent = 0
    /\ bjobsClosed = FALSE /\ bw = <<>> /\ bchan = <<>> /\ ball = <<>>
    /\ bret = Nil
    /\ kmode = Nil /\ kcpu = 0 /\ kconc = 0 /\ kn = 0 /\ klimit = 0 /\ kq = 0
    /\ ksel = 0 /\ kping = 0 /\ kdone = 0 /\ kctx = Nil /\ kpc = "idle"
    /\ ckind = Nil /\ c4 = Nil /\ c6 = Nil /\ cerrs = <<>> /\ cuse = Nil
    /\ qreplies = <<>> /\ qstats = NilRec /\ qres = NilRec
    /\ ptarget = <<>> /\ poptPort = 0 /\ pmode = Nil /\ ppc = "idle" /\ phost = <<>>
    /\ pport = 0 /\ perr = Nil /\ plooked = FALSE /\ pout = Nil
    /\ wbase = 0 /\ wnext = 0 /\ wk = 0 /\ wpc = "idle" /\ wpre = Nil /\ wmain = Nil
    /\ wdl = NilRec /\ wwatch = <<>> /\ wexp = FALSE /\ wnet = {} /\ wout = <<>>
    /\ consumer = Nil /\ cons = "idle"

\* Trace up to the loop: the argument check, ResolveHost, the connection
\* check and the fresh result
TraceStart ==
    /\ tpc = "idle"
    /\ \E o \in TraceConfigs, pre \in {"ok", ErrInvalidHost, ErrResolve, ErrNoConn} :
          /\ topts' = o
          /\ IF pre # "ok"
             THEN /\ tretErr' = pre
                  /\ tpc' = "done"
                  /\ UNCHANGED <<tres, ttl>>
             ELSE /\ tres' = [Hops |-> <<>>, HopCount |-> 0,
                              ReachedDestination |-> FALSE,
                              Status |-> StatusSuccess]
                  /\ ttl' = o.FirstTTL
                  /\ tpc' = "loop"
                  /\ UNCHANGED tretErr
    /\ UNCHANGED <<hop, texit>>
    /\ TraceFrame

\* the loop condition; when it holds traceHop starts a hop for this ttl
TraceLoopCond ==
    /\ tpc = "loop"
    /\ IF LoopContinues(ttl, topts)
       THEN /\ hop' = NewHop(ttl)
            /\ tpc' = "probe"
            /\ UNCHANGED texit
       ELSE /\ texit' = "maxhops"
            /\ tpc' = "end"
            /\ UNCHANGED hop
    /\ UNCHANGED <<topts, ttl, tres, tretErr>>
    /\ TraceFrame

\* one iteration of traceHop's loop: probeOnce and the recording of it
TraceProbe ==
    /\ tpc = "probe"
    /\ Len(hop.Probes) < topts.Queries
    /\ \E ev \in TraceEvents :
          hop' = RecordProbe(hop, probeOnce(Len(hop.Probes) + 1, ev))
    /\ UNCHANGED <<topts, tpc, ttl, tres, tretErr, texit>>
    /\ TraceFrame

\* traceHop returns: AddHop, the destination test, the early-exit heuristic
\* and ttl++
TraceHopDone ==
    /\ tpc = "probe"
    /\ Len(hop.Probes) >= topts.Queries
    /\ LET r == AddHop(tres, hop) IN
       IF hop.IsDestination
       THEN /\ tres' = [r EXCEPT !.ReachedDestination = TRUE]
            /\ texit' = "destination"
            /\ tpc' = "end"
            /\ UNCHANGED ttl
       ELSE IF HeuristicFires(r.Hops, ttl, topts)
       THEN /\ tres' = r
            /\ texit' = "heuristic"
            /\ tpc' = "end"
            /\ UNCHANGED ttl
       ELSE /\ tres' = r
            /\ ttl' = ttl + 1
            /\ tpc' = "loop"
            /\ UNCHANGED texit
    /\ hop' = NilRec
    /\ UNCHANGED <<topts, tretErr>>
    /\ TraceFrame

\* after the loop: the overall status, return result, nil
TraceEnd ==
    /\ tpc = "end"
    /\ tres' = [tres EXCEPT !.Status = TraceStatus(tres)]
    /\ tpc' = "done"
    /\ UNCHANGED <<topts, ttl, hop, tretErr, texit>>
    /\ TraceFrame

NextTrace ==
    \/ TraceStart
    \/ TraceLoopCond
    \/ TraceProbe
    \/ TraceHopDone
    \/ TraceEnd

SpecTrace == InitTrace /\ [][NextTrace]_vars

\* every step of Trace is taken in the end: the probes are bounded by their
\* read deadline and nothing else blocks
FairTrace == SpecTrace /\ WF_vars(NextTrace)

(***************************************************************************)
(* Properties of the tracer.                                               *)
(***************************************************************************)
\* a Trace run that got past its checks and holds a result
Tracing == tres # NilRec

\* C13: in every state of a Trace run HopCount == len(Hops), hop number k
\* (from 0) has TTL FirstTTL + k and exactly Queries probes, the destination
\* hop is the last hop, and once ReachedDestination is true it stays true
\* and no further hop is appended.
C13_HopsWellFormed ==
    /\ [](Tracing =>
            /\ tres.HopCount = Len(tres.Hops)
            /\ \A k \in 1..Len(tres.Hops) :
                  /\ tres.Hops[k].TTL = topts.FirstTTL + (k - 1)
                  /\ Len(tres.Hops[k].Probes) = topts.Queries
                  /\ tres.Hops[k].IsDestination => k = Len(tres.Hops)
            /\ tres.ReachedDestination =>
                  /\ tres.Hops # <<>>
                  /\ tres.Hops[Len(tres.Hops)].IsDestination)
    /\ [][(Tracing /\ tres.ReachedDestination) =>
            (tres'.ReachedDestination /\ tres'.Hops = tres.Hops)]_vars

\* a finished run of two-probe hops that reached the destination on its
\* second hop
C13_Witness ==
    /\ tpc = "done" /\ Tracing
    /\ topts.Queries = 2
    /\ tres.ReachedDestination
    /\ tres.HopCount = 2

\* the hops of the run: those recorded and the one traceHop is filling
AllHops ==
    (IF Tracing THEN {tres.Hops[k] : k \in 1..Len(tres.Hops)} ELSE {})
    \cup (IF hop # NilRec THEN {hop} ELSE {})

\* C14: a hop is marked IsDestination only if the responder IP recorded for
\* it equals the resolved target IP; a hop answered only by other responders
\* or by no one is never marked.
C14_DestinationIsTarget ==
    \A h \in AllHops :
        /\ h.IsDestination => h.IP = TargetIP
        /\ (\A j \in 1..Len(h.Probes) : h.Probes[j].from # TargetIP) =>
              ~h.IsDestination

\* a recorded destination hop whose first probe timed out, next to a hop
\* that a router answered
C14_Witness ==
    /\ Tracing
    /\ \E k \in 1..Len(tres.Hops) :
          /\ tres.Hops[k].IsDestination
          /\ tres.Hops[k].Probes[1].Status = StatusTimeout
    /\ \E k \in 1..Len(tres.Hops) :
          /\ tres.Hops[k].IP = RouterIP
          /\ ~tres.Hops[k].IsDestination

\* C15: whenever a probe of a hop received an Echo Reply from the resolved
\* target IP, the hop is marked IsDestination -- also when an earlier probe
\* of the hop was answered by someone else -- and the trace ends after that
\* hop with ReachedDestination = true.
C15_EchoFromTargetEndsTrace ==
    /\ \A h \in AllHops :
          (\E j \in 1..Len(h.Probes) :
              h.Probes[j].kind = "echo" /\ h.Probes[j].from = TargetIP)
          => h.IsDestination
    /\ Tracing =>
          \A k \in 1..Len(tres.Hops) :
              (\E j \in 1..Len(tres.Hops[k].Probes) :
                  /\ tres.Hops[k].Probes[j].kind = "echo"
                  /\ tres.Hops[k].Probes[j].from = TargetIP)
              => (tres.ReachedDestination /\ k = Len(tres.Hops))

\* the step in which traceHop returns and Trace records the hop
HopRecorded == hop # NilRec /\ hop' = NilRec

\* the five hops recorded last all had zero successful probes
LastFiveSilent(hops) ==
    /\ Len(hops) >= 5
    /\ \A k \in (Len(hops) - 4)..Len(hops) : GetSuccessCount(hops[k]) = 0

\* after the heuristic fired nothing more is probed or recorded and Trace
\* returns the partial result without an error
HeuristicExitIsFinal ==
    /\ [](texit = "heuristic" =>
            /\ tpc \in {"end", "done"}
            /\ hop = NilRec
            /\ tretErr = Nil
            /\ Tracing /\ ~tres.ReachedDestination
            /\ LastFiveSilent(tres.Hops))
    /\ [][texit = "heuristic" => tres'.Hops = tres.Hops]_vars

\* C16 as stated: Trace leaves the TTL loop by the heuristic as soon as at
\* least FirstTTL+5 hops have been attempted and the last five hops all had
\* zero successful probes, never while one of the last five hops had a
\* successful probe; no hop is probed afterwards and the partial result is
\* returned without an error.
C16_Original ==
    /\ [][HopRecorded =>
            (texit' = "heuristic" <=>
                /\ Len(tres'.Hops) >= topts.FirstTTL + 5
                /\ LastFiveSilent(tres'.Hops))]_vars
    /\ HeuristicExitIsFinal

\* C16, amended: the threshold is on the TTL, not on a hop count: Trace
\* leaves the TTL loop by the heuristic as soon as the TTL just probed is
\* greater than FirstTTL+5 (seven hops attempted) and the last five hops all
\* had zero successful probes, never while one of them had a successful
\* probe; no hop is probed afterwards and the partial result is returned
\* without an error.
C16_EarlyExit ==
    /\ [][HopRecorded =>
            (texit' = "heuristic" <=>
                /\ ttl > topts.FirstTTL + 5
                /\ Len(tres'.Hops) >= 7
                /\ LastFiveSilent(tres'.Hops))]_vars
    /\ HeuristicExitIsFinal

\* the heuristic fired on the seventh of eight allowed hops, five silent
\* hops after a hop that answered
C16_Witness ==
    /\ tpc = "done" /\ texit = "heuristic"
    /\ topts.MaxHops > tres.HopCount
    /\ tres.HopCount = 7
    /\ GetSuccessCount(tres.Hops[2]) > 0
    /\ tres.Status = StatusTimeout /\ tretErr = Nil

\* C17: every Trace run that starts tracing terminates, after at most
\* MaxHops - FirstTTL + 1 hops, in exactly one of three terminal states:
\* ReachedDestination = true with Status Success, MaxHops exhausted without
\* reaching the destination with Status Timeout, or the early-exit heuristic
\* fired with Status Timeout.
C17_Terminates ==
    /\ <>(tpc = "done")
    /\ [](Tracing =>
            /\ tres.HopCount <= topts.MaxHops - topts.FirstTTL + 1
            /\ tpc = "done" =>
                  /\ tretErr = Nil
                  /\ texit \in {"destination", "maxhops", "heuristic"}
                  /\ texit = "destination" <=>
                        (tres.ReachedDestination /\ tres.Status = StatusSuccess)
                  /\ texit = "maxhops" =>
                        /\ ~tres.ReachedDestination
                        /\ tres.HopCount = topts.MaxHops - topts.FirstTTL + 1
                        /\ tres.Status = StatusTimeout
                  /\ texit = "heuristic" =>
                        /\ ~tres.ReachedDestination
                        /\ tres.Status = StatusTimeout)

\* a finished run that used up MaxHops, at least three hops, without
\* reaching the destination
C17_Witness ==
    /\ tpc = "done" /\ texit = "maxhops"
    /\ tres.HopCount = topts.MaxHops - topts.FirstTTL + 1
    /\ tres.HopCount >= 3
    /\ tres.Status = StatusTimeout

\* the hops of the result that had at least one successful probe
AnsweredHops == {k \in 1..Len(tres.Hops) : GetSuccessCount(tres.Hops[k]) > 0}

\* C18 as stated: the Status of a returned TraceResult is Success when
\* ReachedDestination is true, and otherwise Failure when no hop produced a
\* successful probe, Timeout when some but not all hops did, Success when
\* all did.
C18_Original ==
    (tpc = "done" /\ Tracing) =>
        tres.Status =
            IF tres.ReachedDestination THEN StatusSuccess
            ELSE IF AnsweredHops = {} THEN StatusFailure
            ELSE IF AnsweredHops = 1..Len(tres.Hops) THEN StatusSuccess
            ELSE StatusTimeout

\* C18, amended: the Status of a returned TraceResult is Success exactly
\* when ReachedDestination is true, whatever happened at the hops before,
\* and Timeout whenever the destination was not reached, whether none, some
\* or all of the hops produced a successful probe; Failure would need a
\* result without hops, which a run with FirstTTL <= MaxHops never has.
C18_StatusByDestination ==
    (tpc = "done" /\ Tracing) =>
        /\ tres.HopCount >= 1
        /\ tres.Status =
              IF tres.ReachedDestination THEN StatusSuccess ELSE StatusTimeout

\* a returned result of two hops, neither with a successful probe, whose
\* Status is Timeout
C18_Witness ==
    /\ tpc = "done" /\ Tracing
    /\ ~tres.ReachedDestination
    /\ tres.HopCount = 2
    /\ AnsweredHops = {}
    /\ tres.Status = StatusTimeout

(***************************************************************************)
(* ICMPPinger.pingOnce: one echo probe with its read loop and the watcher  *)
(* goroutine that wakes a blocked ReadFrom when the context is cancelled.  *)
(***************************************************************************)
MaxSeq     == 2       \* sequence numbers range over 1..MaxSeq
MaxDiscard == 2       \* messages one probe can discard

ICMPIDMask == 65535   \* types.ICMPIDMask = 0xffff
Pid        == 65543   \* os.Getpid()

\* p.id = os.Getpid() & types.ICMPIDMask
TransportID == Pid % (ICMPIDMask + 1)

\* the Identifier of another process pinging from this host
OtherID == TransportID + 1

ErrUnreachable  == "destination unreachable"
ErrTimeExceeded == "time exceeded"
ErrSocket       == "socket error"

\* what conn.ReadFrom can deliver: bytes ParseMessage rejects, an Echo Reply
\* with its Identifier and Sequence, a routing error, or some other type
IcmpMessages ==
    {[type |-> t] : t \in {"garbage", "unreach", "timex", "other"}}
    \cup {[type |-> "echo", ID |-> d, Seq |-> q] :
             d \in {TransportID, OtherID}, q \in 1..MaxSeq}

\* a match on the Identifier alone
EchoMatches_AnySeq(m, id, seq) == m.ID = id

\* echo.ID == p.id && echo.Seq == seq
EchoMatches(m, id, seq) == m.ID = id /\ m.Seq = seq

\* a watcher that leaves the deadline alone
ForcedDeadline_Kept(d) == d

\* conn.SetReadDeadline(time.Now()) in the watcher
ForcedDeadline(d) == "now"

\* the read deadline of the socket has passed
ReadExpired == iexpired \/ irdl = "now"

\* reply.Status = s; reply.Error = e; return reply
Ended(rep, s, e) == [rep EXCEPT !.Status = s, !.Error = e]

IcmpFrame ==
    UNCHANGED <<pingVars, statsVars, streamVars, factVars, cacheVars, resolveVars,
                traceVars, batchVars, fanVars,
                closeVars, rttVars, tcpVars, sockVars, consVars>>

InitIcmp ==
    /\ ipc = "idle" /\ ictx = Nil /\ iseq = 0 /\ irep = NilRec
    /\ iexpired = FALSE /\ irdl = Nil /\ iwpc = "none" /\ ilast = NilRec
    /\ idisc = 0 /\ icancelAt = Nil /\ iafter = FALSE
    \* the other components stay idle
    /\ prober = "TCPPinger" /\ target = "host" /\ resolves = "v4"
    /\ conn6 = FALSE /\ count = 0 /\ ctxErr = Nil /\ pc = "idle" /\ i = 0
    /\ result = NilRec /\ retErr = Nil /\ issued = 0
    /\ sres = NilRec /\ fresh = FALSE
    /\ scount = 0 /\ sctx = Nil /\ spc = "idle" /\ si = 0 /\ slot = NilRec
    /\ closed = FALSE /\ delivered = <<>> /\ created = 0
    /\ cancelAt = NilRec
    /\ fopts = NilRec /\ rawDenied = FALSE /\ fpc = "idle"
    /\ fpinger = Nil /\ ferr = Nil /\ fin = NilRec
    /\ heap = <<>> /\ nextRef = 1 /\ entries = <<>> /\ now = 0
    /\ held = {} /\ setVal = <<>> /\ gpc = <<>> /\ gloc = <<>>
    /\ got = NilRec
    /\ rpc = "idle" /\ rhost = Nil /\ rver = 0 /\ rlookup = NilRec
    /\ rret = NilRec /\ rerr = Nil /\ rops = <<>>
    /\ topts = NilRec /\ tpc = "idle" /\ ttl = 0 /\ hop = NilRec
    /\ tres = NilRec /\ tretErr = Nil /\ texit = Nil
    /\ bfmt = Nil /\ bn = 0 /\ bctx = Nil /\ bmain = "idle" /\ bsent = 0
    /\ bjobsClosed = FALSE /\ bw = <<>> /\ bchan = <<>> /\ ball = <<>>
    /\ bret = Nil
    /\ kmode = Nil /\ kcpu = 0 /\ kconc = 0 /\ kn = 0 /\ klimit = 0 /\ kq = 0
    /\ ksel = 0 /\ kping = 0 /\ kdone = 0 /\ kctx = Nil /\ kpc = "idle"
    /\ ckind = Nil /\ c4 = Nil /\ c6 = Nil /\ cerrs = <<>> /\ cuse = Nil
    /\ qreplies = <<>> /\ qstats = NilRec /\ qres = NilRec
    /\ ptarget = <<>> /\ poptPort = 0 /\ pmode = Nil /\ ppc = "idle" /\ phost = <<>>
    /\ pport = 0 /\ perr = Nil /\ plooked = FALSE /\ pout = Nil
    /\ wbase = 0 /\ wnext = 0 /\ wk = 0 /\ wpc = "idle" /\ wpre = Nil /\ wmain = Nil
    /\ wdl = NilRec /\ wwatch = <<>> /\ wexp = FALSE /\ wnet = {} /\ wout = <<>>
    /\ consumer = Nil /\ cons = "idle"

\* pingOnce up to the deadlines: the fresh reply, ResolveIPAddr, Marshal and
\* SetReadDeadline / SetWriteDeadline
IcmpStart ==
    /\ ipc = "idle"
    /\ \E seq \in 1..MaxSeq, err \in {Nil, ErrSocket} :
          LET rep == [Seq |-> seq, Status |-> StatusSuccess, Error |-> Nil] IN
          /\ iseq' = seq
          /\ IF err # Nil
             THEN /\ irep' = Ended(rep, StatusFailure, err)
                  /\ ipc' = "done"
                  /\ UNCHANGED irdl
             ELSE /\ irep' = rep
                  /\ irdl' = "probe"
                  /\ ipc' = "write"
    /\ UNCHANGED <<ictx, iexpired, iwpc, ilast, idisc, icancelAt, iafter>>
    /\ IcmpFrame

\* the ctx.Err() test before the write, WriteTo, and the start of the
\* watcher goroutine
IcmpWrite ==
    /\ ipc = "write"
    /\ IF ictx # Nil
       THEN /\ irep' = Ended(irep, StatusFailure, ictx)
            /\ ipc' = "done"
            /\ UNCHANGED iwpc
       ELSE \E err \in {Nil, ErrSocket} :
            IF err # Nil
            THEN /\ irep' = Ended(irep, StatusFailure, err)
                 /\ ipc' = "done"
                 /\ UNCHANGED iwpc
            ELSE /\ iwpc' = "waiting"
                 /\ ipc' = "loop"
                 /\ UNCHANGED irep
    /\ UNCHANGED <<ictx, iseq, iexpired, irdl, ilast, idisc, icancelAt, iafter>>
    /\ IcmpFrame

\* the top of the read loop: the ctx.Err() test, then ReadFrom blocks
IcmpLoopTop ==
    /\ ipc = "loop"
    /\ IF ictx # Nil
       THEN /\ irep' = Ended(irep, StatusFailure, ictx)
            /\ ipc' = "done"
       ELSE /\ ipc' = "reading"
            /\ UNCHANGED irep
    /\ UNCHANGED <<ictx, iseq, iexpired, irdl, iwpc, ilast, idisc, icancelAt, iafter>>
    /\ IcmpFrame

\* ReadFrom returns a message before the read deadline: ParseMessage, the
\* switch on rm.Type and the deadline test at the bottom of the loop; late
\* says that the deadline of the probe passed while this ran
IcmpReadMsg ==
    /\ ipc = "reading"
    /\ ~ReadExpired
    /\ \E m \in IcmpMessages, late \in BOOLEAN :
          LET ends == \/ m.type \in {"unreach", "timex"}
                      \/ m.type = "echo" /\ EchoMatches(m, TransportID, iseq)
          IN
          /\ ends \/ idisc < MaxDiscard
          /\ ilast' = m
          /\ iexpired' = (iexpired \/ late)
          /\ IF m.type = "garbage"
             THEN /\ ipc' = "loop"
                  /\ idisc' = idisc + 1
                  /\ UNCHANGED irep
             ELSE IF m.type = "echo" /\ EchoMatches(m, TransportID, iseq)
             THEN /\ ipc' = "done"
                  /\ UNCHANGED <<irep, idisc>>
             ELSE IF m.type = "unreach"
             THEN /\ irep' = Ended(irep, StatusFailure, ErrUnreachable)
                  /\ ipc' = "done"
                  /\ UNCHANGED idisc
             ELSE IF m.type = "timex"
             THEN /\ irep' = Ended(irep, StatusFailure, ErrTimeExceeded)
                  /\ ipc' = "done"
                  /\ UNCHANGED idisc
             ELSE /\ idisc' = idisc + 1
                  /\ IF iexpired'
                     THEN /\ irep' = Ended(irep, StatusTimeout, Nil)
                          /\ ipc' = "done"
                     ELSE /\ ipc' = "loop"
                          /\ UNCHANGED irep
    /\ iafter' = (iafter \/ ictx # Nil)
    /\ UNCHANGED <<ictx, iseq, irdl, iwpc, icancelAt>>
    /\ IcmpFrame

\* ReadFrom returns a timeout error: the read deadline has passed
IcmpReadTimeout ==
    /\ ipc = "reading"
    /\ ReadExpired
    /\ irep' = IF ictx # Nil THEN Ended(irep, StatusFailure, ictx)
               ELSE Ended(irep, StatusTimeout, Nil)
    /\ ipc' = "done"
    /\ UNCHANGED <<ictx, iseq, iexpired, irdl, iwpc, ilast, idisc, icancelAt, iafter>>
    /\ IcmpFrame

\* ReadFrom returns an error that is no timeout
IcmpReadError ==
    /\ ipc = "reading"
    /\ irep' = IF ictx # Nil THEN Ended(irep, StatusFailure, ictx)
               ELSE Ended(irep, StatusFailure, ErrSocket)
    /\ ipc' = "done"
    /\ UNCHANGED <<ictx, iseq, iexpired, irdl, iwpc, ilast, idisc, icancelAt, iafter>>
    /\ IcmpFrame

\* the deadline of the probe passes
IcmpDeadlinePasses ==
    /\ ipc \in {"write", "loop", "reading"}
    /\ ~iexpired
    /\ iexpired' = TRUE
    /\ UNCHANGED <<ipc, ictx, iseq, irep, irdl, iwpc, ilast, idisc, icancelAt, iafter>>
    /\ IcmpFrame

\* the caller cancels the context
IcmpCancel ==
    /\ ipc \in {"write", "loop", "reading"}
    /\ ictx = Nil
    /\ ictx' = ErrCanceled
    /\ icancelAt' = ipc
    /\ UNCHANGED <<ipc, iseq, irep, iexpired, irdl, iwpc, ilast, idisc, iafter>>
    /\ IcmpFrame

\* the watcher takes case <-ctx.Done() and forces the read deadline
WatcherFire ==
    /\ iwpc = "waiting"
    /\ ictx # Nil
    /\ irdl' = ForcedDeadline(irdl)
    /\ iwpc' = "done"
    /\ UNCHANGED <<ipc, ictx, iseq, irep, iexpired, ilast, idisc, icancelAt, iafter>>
    /\ IcmpFrame

\* the watcher takes case <-cancelRead, closed when pingOnce returned
WatcherQuit ==
    /\ iwpc = "waiting"
    /\ ipc = "done"
    /\ iwpc' = "done"
    /\ UNCHANGED <<ipc, ictx, iseq, irep, iexpired, irdl, ilast, idisc, icancelAt, iafter>>
    /\ IcmpFrame

NextIcmp ==
    \/ IcmpStart
    \/ IcmpWrite
    \/ IcmpLoopTop
    \/ IcmpReadMsg
    \/ IcmpReadTimeout
    \/ IcmpReadError
    \/ IcmpDeadlinePasses
    \/ IcmpCancel
    \/ WatcherFire
    \/ WatcherQuit

SpecIcmp == InitIcmp /\ [][NextIcmp]_vars

\* the goroutines keep running and a read whose deadline has passed returns;
\* nothing forces a message to arrive, the deadline to pass or a cancellation
FairIcmp ==
    /\ SpecIcmp
    /\ WF_vars(IcmpWrite)
    /\ WF_vars(IcmpLoopTop)
    /\ WF_vars(IcmpReadTimeout)
    /\ WF_vars(WatcherFire)

(***************************************************************************)
(* Properties of the ICMP probe.                                           *)
(***************************************************************************)
\* the probe ended on the Echo Reply that answers it
EndedOnReply ==
    /\ irep.Status = StatusSuccess
    /\ ilast # NilRec /\ ilast.type = "echo"
    /\ ilast.ID = TransportID /\ ilast.Seq = iseq

\* the probe ended on a Destination-Unreachable or Time-Exceeded message
EndedOnRoutingError ==
    /\ irep.Status = StatusFailure
    /\ ilast # NilRec
    /\ \/ ilast.type = "unreach" /\ irep.Error = ErrUnreachable
       \/ ilast.type = "timex" /\ irep.Error = ErrTimeExceeded

\* the probe ended because its deadline passed
EndedOnDeadline == irep.Status = StatusTimeout /\ iexpired

\* the probe ended because the context was cancelled
EndedOnCancel ==
    irep.Status = StatusFailure /\ ictx # Nil /\ irep.Error = ictx

\* the probe ended on an error of ResolveIPAddr, Marshal, WriteTo or ReadFrom
EndedOnSocketError == irep.Status = StatusFailure /\ irep.Error = ErrSocket

C20_Original ==
    (ipc = "done" /\ icancelAt = "reading") =>
        (irep.Status = StatusFailure /\ irep.Error = ErrCanceled)

\* C20, amended: a probe whose context was cancelled while it was blocked in
\* ReadFrom returns without waiting for its deadline, the watcher forcing the
\* read deadline to now; it returns Failure with the cancellation error
\* unless ReadFrom delivered a message after the cancellation, before the
\* forced deadline took effect.
C20_CancelUnblocksRead ==
    /\ (icancelAt = "reading") ~> (ipc = "done")
    /\ []((ipc = "done" /\ icancelAt = "reading" /\ ~iafter) =>
            (irep.Status = StatusFailure /\ irep.Error = ErrCanceled))

\* a probe cancelled in ReadFrom that returned the cancellation error on the
\* forced deadline, its own deadline still ahead
C20_Witness ==
    /\ ipc = "done" /\ icancelAt = "reading"
    /\ irdl = "now" /\ ~iexpired /\ ~iafter
    /\ irep.Status = StatusFailure /\ irep.Error = ErrCanceled

(***************************************************************************)
(* runPingBatchConcurrent (internal/cmd/ping/batch.go): a pool of workers  *)
(* reading targets from the unbuffered jobs channel, every worker calling  *)
(* Ping on the one Pinger that Runner.Run created and sending one result   *)
(* per target to resultsChan, whose capacity is len(targets).              *)
(***************************************************************************)
MaxTargets == 2    \* largest number of targets given to the batch

ErrPartialFailure == "partial ping failure"
ErrFormat         == "format output failed: unsupported output format"

OutputJSON  == "json"
OutputYAML  == "yaml"
OutputTable == "table"

\* the values of the --output flag that select the batch mode: anything
\* but "text" and ""
BatchFormats == {OutputJSON, OutputYAML, OutputTable, "xml"}

\* runtime.NumCPU() on the machines considered
CPUs == {2, 16, 48}

\* the Pinger created by Runner.Run and handed to runPingBatchConcurrent
BatchPinger == "pinger"

\* the pool as large as the target list whatever the machine
batchWorkerCount_NoCap(targetCount, ncpu) ==
    IF targetCount <= 0 THEN 1 ELSE targetCount

batchWorkerCount(targetCount, ncpu) ==
    IF targetCount <= 0 THEN 1
    ELSE LET c1 == IF ncpu < 8 THEN 8 ELSE ncpu
             c2 == IF c1 > 32 THEN 32 ELSE c1
             c3 == IF c2 > targetCount THEN targetCount ELSE c2
         IN  IF c3 <= 0 THEN 1 ELSE c3

\* formatter.Format on a []*types.PingResult: JSON and YAML marshal it, the
\* table and text formats fall through to JSON, any other format is refused
Format(fmt) == IF fmt \in {OutputJSON, OutputYAML, OutputTable, "text"} THEN Nil ELSE ErrFormat

\* what Ping returns for a target: a result finalised by FinalStatus, or an
\* error with no result
PingReturns(t) ==
    {[res |-> FinalStatus([Target |-> t, Status |-> StatusSuccess, Error |-> Nil,
                           Statistics |-> [Sent |-> c[1], Received |-> c[2]]]),
      err |-> Nil] : c \in {<<1, 0>>, <<1, 1>>, <<2, 1>>}}
    \cup {[res |-> NilRec, err |-> e] : e \in {ErrResolve}}

\* the Failure result a worker writes itself
FailureResult(t, e) ==
    [Target |-> t, Status |-> StatusFailure, Error |-> e, Statistics |-> NilRec]

\* the test of the collecting loop
CountsAsFailed(res) ==
    res.Status = StatusFailure
    \/ (res.Statistics # NilRec /\ res.Statistics.Received = 0)

\* any collected result that is not a plain Success
ReturnedError_Strict(results, fmt) ==
    IF Format(fmt) # Nil THEN Format(fmt)
    ELSE IF \E k \in 1..Len(results) : results[k].Status # StatusSuccess
         THEN ErrPartialFailure ELSE Nil

\* the tail of runPingBatchConcurrent: a formatting error first, then the
\* partial failure
ReturnedError(results, fmt) ==
    IF Format(fmt) # Nil THEN Format(fmt)
    ELSE IF \E k \in 1..Len(results) : CountsAsFailed(results[k])
         THEN ErrPartialFailure ELSE Nil

BatchFrame ==
    UNCHANGED <<pingVars, statsVars, streamVars, factVars, cacheVars, resolveVars,
                traceVars, icmpVars, fanVars,
                closeVars, rttVars, tcpVars, sockVars, consVars>>

BatchWorkers == DOMAIN bw

InitBatch ==
    /\ bfmt = Nil /\ bn = 0 /\ bctx = Nil /\ bmain = "idle" /\ bsent = 0
    /\ bjobsClosed = FALSE /\ bw = <<>> /\ bchan = <<>> /\ ball = <<>>
    /\ bret = Nil
    \* the other components stay idle
    /\ prober = "TCPPinger" /\ target = "host" /\ resolves = "v4"
    /\ conn6 = FALSE /\ count = 0 /\ ctxErr = Nil /\ pc = "idle" /\ i = 0
    /\ result = NilRec /\ retErr = Nil /\ issued = 0
    /\ sres = NilRec /\ fresh = FALSE
    /\ scount = 0 /\ sctx = Nil /\ spc = "idle" /\ si = 0 /\ slot = NilRec
    /\ closed = FALSE /\ delivered = <<>> /\ created = 0
    /\ cancelAt = NilRec
    /\ fopts = NilRec /\ rawDenied = FALSE /\ fpc = "idle"
    /\ fpinger = Nil /\ ferr = Nil /\ fin = NilRec
    /\ heap = <<>> /\ nextRef = 1 /\ entries = <<>> /\ now = 0
    /\ held = {} /\ setVal = <<>> /\ gpc = <<>> /\ gloc = <<>>
    /\ got = NilRec
    /\ rpc = "idle" /\ rhost = Nil /\ rver = 0 /\ rlookup = NilRec
    /\ rret = NilRec /\ rerr = Nil /\ rops = <<>>
    /\ topts = NilRec /\ tpc = "idle" /\ ttl = 0 /\ hop = NilRec
    /\ tres = NilRec /\ tretErr = Nil /\ texit = Nil
    /\ ipc = "idle" /\ ictx = Nil /\ iseq = 0 /\ irep = NilRec
    /\ iexpired = FALSE /\ irdl = Nil /\ iwpc = "none" /\ ilast = NilRec
    /\ idisc = 0 /\ icancelAt = Nil /\ iafter = FALSE
    /\ kmode = Nil /\ kcpu = 0 /\ kconc = 0 /\ kn = 0 /\ klimit = 0 /\ kq = 0
    /\ ksel = 0 /\ kping = 0 /\ kdone = 0 /\ kctx = Nil /\ kpc = "idle"
    /\ ckind = Nil /\ c4 = Nil /\ c6 = Nil /\ cerrs = <<>> /\ cuse = Nil
    /\ qreplies = <<>> /\ qstats = NilRec /\ qres = NilRec
    /\ ptarget = <<>> /\ poptPort = 0 /\ pmode = Nil /\ ppc = "idle" /\ phost = <<>>
    /\ pport = 0 /\ perr = Nil /\ plooked = FALSE /\ pout = Nil
    /\ wbase = 0 /\ wnext = 0 /\ wk = 0 /\ wpc = "idle" /\ wpre = Nil /\ wmain = Nil
    /\ wdl = NilRec /\ wwatch = <<>> /\ wexp = FALSE /\ wnet = {} /\ wout = <<>>
    /\ consumer = Nil /\ cons = "idle"

\* len(targets) == 0: return nil at once
BatchEmpty ==
    /\ bmain = "idle"
    /\ \E f \in BatchFormats : bfmt' = f
    /\ bn' = 0 /\ bmain' = "done" /\ bret' = Nil
    /\ UNCHANGED <<bctx, bsent, bjobsClosed, bw, bchan, ball>>
    /\ BatchFrame

\* the channels are made and the workers started
BatchStart ==
    /\ bmain = "idle"
    /\ \E n \in 1..MaxTargets, f \in BatchFormats, ncpu \in CPUs :
        /\ bn' = n /\ bfmt' = f
        /\ bw' = [w \in 1..batchWorkerCount(n, ncpu) |->
                    [pc |-> "recv", t |-> 0, inst |-> Nil]]
    /\ bmain' = "dispatch"
    /\ UNCHANGED <<bctx, bsent, bjobsClosed, bchan, ball, bret>>
    /\ BatchFrame

\* jobs <- target meets a worker blocked in "for t := range jobs"
BatchDispatch ==
    /\ bmain = "dispatch" /\ bsent < bn
    /\ \E w \in BatchWorkers :
        /\ bw[w].pc = "recv"
        /\ bw' = [bw EXCEPT ![w] = [pc |-> "select", t |-> bsent + 1, inst |-> Nil]]
    /\ bsent' = bsent + 1
    /\ UNCHANGED <<bfmt, bn, bctx, bmain, bjobsClosed, bchan, ball, bret>>
    /\ BatchFrame

\* close(jobs) after the last target, then workers.Wait()
BatchCloseJobs ==
    /\ bmain = "dispatch" /\ bsent = bn
    /\ bjobsClosed' = TRUE /\ bmain' = "wait"
    /\ UNCHANGED <<bfmt, bn, bctx, bsent, bw, bchan, ball, bret>>
    /\ BatchFrame

\* select { case <-ctx.Done(): ... continue; default: }: a worker that finds
\* the context cancelled writes a Failure result for its target
WorkerSkip ==
    /\ \E w \in BatchWorkers :
        /\ bw[w].pc = "select" /\ bctx # Nil
        /\ bchan' = Append(bchan, FailureResult(bw[w].t, bctx))
        /\ bw' = [bw EXCEPT ![w] = [pc |-> "recv", t |-> 0, inst |-> Nil]]
    /\ UNCHANGED <<bfmt, bn, bctx, bmain, bsent, bjobsClosed, ball, bret>>
    /\ BatchFrame

\* default: the worker copies the options and calls pinger.Ping
WorkerCall ==
    /\ \E w \in BatchWorkers :
        /\ bw[w].pc = "select" /\ bctx = Nil
        /\ bw' = [bw EXCEPT ![w].pc = "ping", ![w].inst = BatchPinger]
    /\ UNCHANGED <<bfmt, bn, bctx, bmain, bsent, bjobsClosed, bchan, ball, bret>>
    /\ BatchFrame

\* Ping returns: its result, or a Failure result carrying its error, goes to
\* resultsChan, which has room for one result per target
WorkerReturn ==
    /\ \E w \in BatchWorkers :
        /\ bw[w].pc = "ping"
        /\ Len(bchan) < bn
        /\ \E r \in PingReturns(bw[w].t) :
            bchan' = Append(bchan, IF r.err # Nil THEN FailureResult(bw[w].t, r.err)
                                   ELSE r.res)
        /\ bw' = [bw EXCEPT ![w] = [pc |-> "recv", t |-> 0, inst |-> Nil]]
    /\ UNCHANGED <<bfmt, bn, bctx, bmain, bsent, bjobsClosed, ball, bret>>
    /\ BatchFrame

\* the range over the closed jobs channel ends: workers.Done()
WorkerExit ==
    /\ bjobsClosed
    /\ \E w \in BatchWorkers :
        /\ bw[w].pc = "recv"
        /\ bw' = [bw EXCEPT ![w].pc = "exit"]
    /\ UNCHANGED <<bfmt, bn, bctx, bmain, bsent, bjobsClosed, bchan, ball, bret>>
    /\ BatchFrame

\* workers.Wait() returns; resultsChan is closed and drained, the results
\* formatted and printed, the error decided
BatchCollect ==
    /\ bmain = "wait"
    /\ \A w \in BatchWorkers : bw[w].pc = "exit"
    /\ ball' = bchan /\ bchan' = <<>>
    /\ bret' = ReturnedError(bchan, bfmt)
    /\ bmain' = "done"
    /\ UNCHANGED <<bfmt, bn, bctx, bsent, bjobsClosed, bw>>
    /\ BatchFrame

\* Ctrl+C, or SIGTERM, cancels the context at any time during the run
BatchCancel ==
    /\ bmain \in {"dispatch", "wait"} /\ bctx = Nil
    /\ bctx' = ErrCanceled
    /\ UNCHANGED <<bfmt, bn, bmain, bsent, bjobsClosed, bw, bchan, ball, bret>>
    /\ BatchFrame

NextBatch ==
    \/ BatchEmpty
    \/ BatchStart
    \/ BatchDispatch
    \/ BatchCloseJobs
    \/ WorkerSkip
    \/ WorkerCall
    \/ WorkerReturn
    \/ WorkerExit
    \/ BatchCollect
    \/ BatchCancel

SpecBatch == InitBatch /\ [][NextBatch]_vars

\* every step of the run itself: the goroutines are scheduled and Ping
\* returns; the cancellation is left to the user
BatchProgress ==
    \/ BatchStart
    \/ BatchDispatch
    \/ BatchCloseJobs
    \/ WorkerSkip
    \/ WorkerCall
    \/ WorkerReturn
    \/ WorkerExit
    \/ BatchCollect

FairBatch == SpecBatch /\ WF_vars(BatchProgress)

\* the Ping invocations in flight
PingsInFlight == {w \in BatchWorkers : bw[w].pc = "ping"}

\* C21: no two Ping invocations that run at the same time use the same
\* Prober instance, so that two concurrent probes never read from, or set
\* deadlines on, the same ICMP socket.
C21_NoSharedProber ==
    \A w1, w2 \in PingsInFlight : w1 # w2 => bw[w1].inst # bw[w2].inst

\* the results collected for target t
ResultsFor(t) == {k \in 1..Len(ball) : ball[k].Target = t}

OneResultPerTarget ==
    /\ Len(ball) = bn
    /\ \A t \in 1..bn : Cardinality(ResultsFor(t)) = 1

SomeFailed == \E k \in 1..Len(ball) : CountsAsFailed(ball[k])

\* a worker that leaves the cancellation test, or a Ping that returned an
\* error, with a Failure result for its target that carries the error
FailureResultWritten ==
    \A w \in BatchWorkers :
        (bw[w].pc = "select" /\ bctx # Nil /\ bw'[w].pc = "recv") =>
            /\ Len(bchan') = Len(bchan) + 1
            /\ bchan'[Len(bchan')] = FailureResult(bw[w].t, bctx)

MaxFanTargets == 33   \* longest target list of a fan-out

\* lengths of the target lists: one target, and lists longer than each cap
FanTargets == {1, 9, 11, 17, MaxFanTargets}

\* task.Concurrency as configured
TaskConcurrencies == {0, 1, 3}

\* the capacity of the semaphore of executePingTask
taskConcurrency(c) == IF c = 0 THEN 10 ELSE c

FanFrame ==
    UNCHANGED <<pingVars, statsVars, streamVars, factVars, cacheVars, resolveVars,
                traceVars, icmpVars, batchVars,
                closeVars, rttVars, tcpVars, sockVars, consVars>>

InitFan ==
    /\ kmode = Nil /\ kcpu = 0 /\ kconc = 0 /\ kn = 0 /\ klimit = 0 /\ kq = 0
    /\ ksel = 0 /\ kping = 0 /\ kdone = 0 /\ kctx = Nil /\ kpc = "idle"
    \* the other components stay idle
    /\ prober = "TCPPinger" /\ target = "host" /\ resolves = "v4"
    /\ conn6 = FALSE /\ count = 0 /\ ctxErr = Nil /\ pc = "idle" /\ i = 0
    /\ result = NilRec /\ retErr = Nil /\ issued = 0
    /\ sres = NilRec /\ fresh = FALSE
    /\ scount = 0 /\ sctx = Nil /\ spc = "idle" /\ si = 0 /\ slot = NilRec
    /\ closed = FALSE /\ delivered = <<>> /\ created = 0
    /\ cancelAt = NilRec
    /\ fopts = NilRec /\ rawDenied = FALSE /\ fpc = "idle"
    /\ fpinger = Nil /\ ferr = Nil /\ fin = NilRec
    /\ heap = <<>> /\ nextRef = 1 /\ entries = <<>> /\ now = 0
    /\ held = {} /\ setVal = <<>> /\ gpc = <<>> /\ gloc = <<>>
    /\ got = NilRec
    /\ rpc = "idle" /\ rhost = Nil /\ rver = 0 /\ rlookup = NilRec
    /\ rret = NilRec /\ rerr = Nil /\ rops = <<>>
    /\ topts = NilRec /\ tpc = "idle" /\ ttl = 0 /\ hop = NilRec
    /\ tres = NilRec /\ tretErr = Nil /\ texit = Nil
    /\ ipc = "idle" /\ ictx = Nil /\ iseq = 0 /\ irep = NilRec
    /\ iexpired = FALSE /\ irdl = Nil /\ iwpc = "none" /\ ilast = NilRec
    /\ idisc = 0 /\ icancelAt = Nil /\ iafter = FALSE
    /\ bfmt = Nil /\ bn = 0 /\ bctx = Nil /\ bmain = "idle" /\ bsent = 0
    /\ bjobsClosed = FALSE /\ bw = <<>> /\ bchan = <<>> /\ ball = <<>>
    /\ bret = Nil
    /\ ckind = Nil /\ c4 = Nil /\ c6 = Nil /\ cerrs = <<>> /\ cuse = Nil
    /\ qreplies = <<>> /\ qstats = NilRec /\ qres = NilRec
    /\ ptarget = <<>> /\ poptPort = 0 /\ pmode = Nil /\ ppc = "idle" /\ phost = <<>>
    /\ pport = 0 /\ perr = Nil /\ plooked = FALSE /\ pout = Nil
    /\ wbase = 0 /\ wnext = 0 /\ wk = 0 /\ wpc = "idle" /\ wpre = Nil /\ wmain = Nil
    /\ wdl = NilRec /\ wwatch = <<>> /\ wexp = FALSE /\ wnet = {} /\ wout = <<>>
    /\ consumer = Nil /\ cons = "idle"

\* runPingBatchConcurrent starts its pool
FanBatchStart ==
    /\ kpc = "idle"
    /\ \E n \in FanTargets, ncpu \in CPUs :
        /\ kn' = n /\ kcpu' = ncpu /\ kq' = n
        /\ klimit' = batchWorkerCount(n, ncpu)
    /\ kmode' = "cli" /\ kpc' = "run"
    /\ UNCHANGED <<kconc, ksel, kping, kdone, kctx>>
    /\ FanFrame

\* executePingTask starts one goroutine per target
FanTaskStart ==
    /\ kpc = "idle"
    /\ \E n \in FanTargets, c \in TaskConcurrencies :
        /\ kn' = n /\ kconc' = c /\ kq' = n
        /\ klimit' = taskConcurrency(c)
    /\ kmode' = "task" /\ kpc' = "run"
    /\ UNCHANGED <<kcpu, ksel, kping, kdone, kctx>>
    /\ FanFrame

\* jobs <- target meets one of the workers waiting in the range over jobs
FanDispatch ==
    /\ kpc = "run" /\ kmode = "cli"
    /\ kq > 0 /\ ksel + kping < klimit
    /\ kq' = kq - 1 /\ ksel' = ksel + 1
    /\ UNCHANGED <<kmode, kcpu, kconc, kn, klimit, kping, kdone, kctx, kpc>>
    /\ FanFrame

\* the worker finds the context cancelled and writes a Failure result
FanSkip ==
    /\ kpc = "run" /\ kmode = "cli"
    /\ ksel > 0 /\ kctx # Nil
    /\ ksel' = ksel - 1 /\ kdone' = kdone + 1
    /\ UNCHANGED <<kmode, kcpu, kconc, kn, klimit, kq, kping, kctx, kpc>>
    /\ FanFrame

\* the worker calls pinger.Ping
FanCall ==
    /\ kpc = "run" /\ kmode = "cli"
    /\ ksel > 0 /\ kctx = Nil
    /\ ksel' = ksel - 1 /\ kping' = kping + 1
    /\ UNCHANGED <<kmode, kcpu, kconc, kn, klimit, kq, kdone, kctx, kpc>>
    /\ FanFrame

\* sem <- struct{}{} succeeds while the semaphore has room; the goroutine
\* goes on to call e.pinger.Ping
FanAcquire ==
    /\ kpc = "run" /\ kmode = "task"
    /\ kq > 0 /\ kping < klimit
    /\ kq' = kq - 1 /\ kping' = kping + 1
    /\ UNCHANGED <<kmode, kcpu, kconc, kn, klimit, ksel, kdone, kctx, kpc>>
    /\ FanFrame

\* a Ping call returns: the worker sends its result and goes back to the
\* jobs channel, the task goroutine releases its slot
FanReturn ==
    /\ kpc = "run" /\ kping > 0
    /\ kping' = kping - 1 /\ kdone' = kdone + 1
    /\ UNCHANGED <<kmode, kcpu, kconc, kn, klimit, kq, ksel, kctx, kpc>>
    /\ FanFrame

\* the WaitGroup is released
FanEnd ==
    /\ kpc = "run" /\ kdone = kn
    /\ kpc' = "done"
    /\ UNCHANGED <<kmode, kcpu, kconc, kn, klimit, kq, ksel, kping, kdone, kctx>>
    /\ FanFrame

FanCancel ==
    /\ kpc = "run" /\ kctx = Nil
    /\ kctx' = ErrCanceled
    /\ UNCHANGED <<kmode, kcpu, kconc, kn, klimit, kq, ksel, kping, kdone, kpc>>
    /\ FanFrame

NextFan ==
    \/ FanBatchStart
    \/ FanTaskStart
    \/ FanDispatch
    \/ FanSkip
    \/ FanCall
    \/ FanAcquire
    \/ FanReturn
    \/ FanEnd
    \/ FanCancel

SpecFan == InitFan /\ [][NextFan]_vars

Min(a, b) == IF a < b THEN a ELSE b
Max(a, b) == IF a > b THEN a ELSE b

\* C22: in CLI batch mode never more than min(max(NumCPU, 8), 32) Ping
\* invocations are in flight at once, and never more than the number of
\* targets, the pool having at least one worker; in the batch-task
\* executor never more than the task's Concurrency, 10 when it is 0.
C22_BoundedFanOut ==
    /\ kmode = "cli" =>
        /\ kping <= Min(Max(kcpu, 8), 32)
        /\ kping <= kn
        /\ klimit >= 1
    /\ kmode = "task" =>
        kping <= (IF kconc = 0 THEN 10 ELSE kconc)

\* a batch of more targets than the largest pool with the pool working at
\* its cap of 32, and a task with Concurrency 0 running 10 probes with
\* goroutines still waiting for a slot
C22_Witness ==
    \/ kmode = "cli" /\ kn > 32 /\ kping = 32 /\ kq > 0
    \/ kmode = "task" /\ kconc = 0 /\ kping = 10 /\ kq > 0

(***************************************************************************)
(* Close of the three Pingers and of the ICMPTracer.  The ICMP instances   *)
(* own conn4, and conn6 when the IPv6 socket could be opened; Close closes *)
(* the sockets and leaves the fields as they are.  Closing a socket that   *)
(* is closed already is refused by the net package with an error.          *)
(***************************************************************************)
MaxCloses == 3     \* most calls of Close on one instance

Closers == Probers \cup {"ICMPTracer"}

OwnsSockets(kind) == kind \in {"ICMPPinger", "ICMPTracer"}

ErrClosedConn == "use of closed network connection"
ErrCloseFailed == "close failed"

\* what conn.Close() can return for a socket in state c
ConnCloseResults(c) ==
    IF c = "open" THEN {Nil, ErrCloseFailed} ELSE {ErrClosedConn}

\* errors.Join of the wrapped errors of ICMPPinger.Close, nil when there is
\* none
JoinErrors(e4, e6) ==
    IF e4 = Nil /\ e6 = Nil THEN <<>>
    ELSE (IF e4 = Nil THEN <<>> ELSE <<<<"close IPv4 conn", e4>>>>)
         \o (IF e6 = Nil THEN <<>> ELSE <<<<"close IPv6 conn", e6>>>>)

\* the last error of ICMPTracer.Close, as a list of at most one error
LastError(e4, e6) ==
    IF e6 # Nil THEN <<e6>> ELSE IF e4 # Nil THEN <<e4>> ELSE <<>>

\* the value Close returns, the empty list standing for nil
CloseReturn(kind, e4, e6) ==
    IF kind = "ICMPPinger" THEN JoinErrors(e4, e6)
    ELSE IF kind = "ICMPTracer" THEN LastError(e4, e6)
    ELSE <<>>

CloseFrame ==
    UNCHANGED <<pingVars, statsVars, streamVars, factVars, cacheVars, resolveVars,
                traceVars, icmpVars, batchVars, fanVars,
                rttVars, tcpVars, sockVars, consVars>>

InitClose ==
    /\ ckind = Nil /\ c4 = Nil /\ c6 = Nil /\ cerrs = <<>> /\ cuse = Nil
    \* the other components stay idle
    /\ prober = "TCPPinger" /\ target = "host" /\ resolves = "v4"
    /\ conn6 = FALSE /\ count = 0 /\ ctxErr = Nil /\ pc = "idle" /\ i = 0
    /\ result = NilRec /\ retErr = Nil /\ issued = 0
    /\ sres = NilRec /\ fresh = FALSE
    /\ scount = 0 /\ sctx = Nil /\ spc = "idle" /\ si = 0 /\ slot = NilRec
    /\ closed = FALSE /\ delivered = <<>> /\ created = 0
    /\ cancelAt = NilRec
    /\ fopts = NilRec /\ rawDenied = FALSE /\ fpc = "idle"
    /\ fpinger = Nil /\ ferr = Nil /\ fin = NilRec
    /\ heap = <<>> /\ nextRef = 1 /\ entries = <<>> /\ now = 0
    /\ held = {} /\ setVal = <<>> /\ gpc = <<>> /\ gloc = <<>>
    /\ got = NilRec
    /\ rpc = "idle" /\ rhost = Nil /\ rver = 0 /\ rlookup = NilRec
    /\ rret = NilRec /\ rerr = Nil /\ rops = <<>>
    /\ topts = NilRec /\ tpc = "idle" /\ ttl = 0 /\ hop = NilRec
    /\ tres = NilRec /\ tretErr = Nil /\ texit = Nil
    /\ ipc = "idle" /\ ictx = Nil /\ iseq = 0 /\ irep = NilRec
    /\ iexpired = FALSE /\ irdl = Nil /\ iwpc = "none" /\ ilast = NilRec
    /\ idisc = 0 /\ icancelAt = Nil /\ iafter = FALSE
    /\ bfmt = Nil /\ bn = 0 /\ bctx = Nil /\ bmain = "idle" /\ bsent = 0
    /\ bjobsClosed = FALSE /\ bw = <<>> /\ bchan = <<>> /\ ball = <<>>
    /\ bret = Nil
    /\ kmode = Nil /\ kcpu = 0 /\ kconc = 0 /\ kn = 0 /\ klimit = 0 /\ kq = 0
    /\ ksel = 0 /\ kping = 0 /\ kdone = 0 /\ kctx = Nil /\ kpc = "idle"
    /\ qreplies = <<>> /\ qstats = NilRec /\ qres = NilRec
    /\ ptarget = <<>> /\ poptPort = 0 /\ pmode = Nil /\ ppc = "idle" /\ phost = <<>>
    /\ pport = 0 /\ perr = Nil /\ plooked = FALSE /\ pout = Nil
    /\ wbase = 0 /\ wnext = 0 /\ wk = 0 /\ wpc = "idle" /\ wpre = Nil /\ wmain = Nil
    /\ wdl = NilRec /\ wwatch = <<>> /\ wexp = FALSE /\ wnet = {} /\ wout = <<>>
    /\ consumer = Nil /\ cons = "idle"

\* NewICMPPinger, NewTCPPinger, NewHTTPPinger, NewICMPTracer: conn4 is open,
\* conn6 is open or nil; the TCP and HTTP probers own no socket
CloserNew ==
    /\ ckind = Nil
    /\ \E kind \in Closers, six \in {Nil, "open"} :
        /\ ckind' = kind
        /\ c4' = IF OwnsSockets(kind) THEN "open" ELSE Nil
        /\ c6' = IF OwnsSockets(kind) THEN six ELSE Nil
    /\ UNCHANGED <<cerrs, cuse>>
    /\ CloseFrame

\* a Ping, or Trace, call on the instance: with its socket closed every
\* probe fails on the write
CloserUse ==
    /\ ckind # Nil
    /\ \E st \in {StatusSuccess, StatusTimeout, StatusFailure} :
        /\ (OwnsSockets(ckind) /\ c4 = "closed") => st = StatusFailure
        /\ cuse' = st
    /\ UNCHANGED <<ckind, c4, c6, cerrs>>
    /\ CloseFrame

\* Close: every socket that is not nil is closed and the errors reported
CloserClose ==
    /\ ckind # Nil /\ Len(cerrs) < MaxCloses
    /\ \E e4 \in (IF c4 = Nil THEN {Nil} ELSE ConnCloseResults(c4)),
          e6 \in (IF c6 = Nil THEN {Nil} ELSE ConnCloseResults(c6)) :
        cerrs' = Append(cerrs, CloseReturn(ckind, e4, e6))
    /\ c4' = IF c4 = Nil THEN Nil ELSE "closed"
    /\ c6' = IF c6 = Nil THEN Nil ELSE "closed"
    /\ UNCHANGED <<ckind, cuse>>
    /\ CloseFrame

NextClose ==
    \/ CloserNew
    \/ CloserUse
    \/ CloserClose

SpecClose == InitClose /\ [][NextClose]_vars

\* C23: Close is idempotent for every prober and for the ICMP tracer: a
\* Close after a successful first Close returns no error, as the first did.
C23_CloseIdempotent ==
    (Len(cerrs) >= 2 /\ cerrs[1] = <<>>) =>
        \A k \in 2..Len(cerrs) : cerrs[k] = <<>>

(***************************************************************************)
(* stats.ComputeRTTStats and PingResult.UpdateStatistics applied to the    *)
(* outcomes of a finished sequence of probes.                              *)
(***************************************************************************)
MaxSamples == 3    \* longest list of outcomes
MaxSample  == 3    \* RTTs of the successful outcomes range over 0..MaxSample

\* the outcomes of one probe: a success with its RTT in nanoseconds, a
\* timeout, a failure
RttOutcomes ==
    {[Status |-> StatusSuccess, RTT |-> r] : r \in 0..MaxSample}
    \cup {[Status |-> StatusTimeout, RTT |-> 0], [Status |-> StatusFailure, RTT |-> 0]}

RttFrame ==
    UNCHANGED <<pingVars, statsVars, streamVars, factVars, cacheVars, resolveVars,
                traceVars, icmpVars, batchVars, fanVars, closeVars,
                tcpVars, sockVars, consVars>>

InitRtt ==
    /\ qreplies \in UNION {[1..n -> {pingOnce(1, o) : o \in RttOutcomes}] : n \in 0..MaxSamples}
    /\ qstats = NilRec /\ qres = NilRec
    \* the other components stay idle
    /\ prober = "TCPPinger" /\ target = "host" /\ resolves = "v4"
    /\ conn6 = FALSE /\ count = 0 /\ ctxErr = Nil /\ pc = "idle" /\ i = 0
    /\ result = NilRec /\ retErr = Nil /\ issued = 0
    /\ sres = NilRec /\ fresh = FALSE
    /\ scount = 0 /\ sctx = Nil /\ spc = "idle" /\ si = 0 /\ slot = NilRec
    /\ closed = FALSE /\ delivered = <<>> /\ created = 0
    /\ cancelAt = NilRec
    /\ fopts = NilRec /\ rawDenied = FALSE /\ fpc = "idle"
    /\ fpinger = Nil /\ ferr = Nil /\ fin = NilRec
    /\ heap = <<>> /\ nextRef = 1 /\ entries = <<>> /\ now = 0
    /\ held = {} /\ setVal = <<>> /\ gpc = <<>> /\ gloc = <<>>
    /\ got = NilRec
    /\ rpc = "idle" /\ rhost = Nil /\ rver = 0 /\ rlookup = NilRec
    /\ rret = NilRec /\ rerr = Nil /\ rops = <<>>
    /\ topts = NilRec /\ tpc = "idle" /\ ttl = 0 /\ hop = NilRec
    /\ tres = NilRec /\ tretErr = Nil /\ texit = Nil
    /\ ipc = "idle" /\ ictx = Nil /\ iseq = 0 /\ irep = NilRec
    /\ iexpired = FALSE /\ irdl = Nil /\ iwpc = "none" /\ ilast = NilRec
    /\ idisc = 0 /\ icancelAt = Nil /\ iafter = FALSE
    /\ bfmt = Nil /\ bn = 0 /\ bctx = Nil /\ bmain = "idle" /\ bsent = 0
    /\ bjobsClosed = FALSE /\ bw = <<>> /\ bchan = <<>> /\ ball = <<>>
    /\ bret = Nil
    /\ kmode = Nil /\ kcpu = 0 /\ kconc = 0 /\ kn = 0 /\ klimit = 0 /\ kq = 0
    /\ ksel = 0 /\ kping = 0 /\ kdone = 0 /\ kctx = Nil /\ kpc = "idle"
    /\ ckind = Nil /\ c4 = Nil /\ c6 = Nil /\ cerrs = <<>> /\ cuse = Nil
    /\ ptarget = <<>> /\ poptPort = 0 /\ pmode = Nil /\ ppc = "idle" /\ phost = <<>>
    /\ pport = 0 /\ perr = Nil /\ plooked = FALSE /\ pout = Nil
    /\ wbase = 0 /\ wnext = 0 /\ wk = 0 /\ wpc = "idle" /\ wpre = Nil /\ wmain = Nil
    /\ wdl = NilRec /\ wwatch = <<>> /\ wexp = FALSE /\ wnet = {} /\ wout = <<>>
    /\ consumer = Nil /\ cons = "idle"

\* rttStats := stats.ComputeRTTStats(rtts) on the RTTs of the successes
RttCompute ==
    /\ qstats = NilRec
    /\ qstats' = ComputeRTTStats(SuccessRTTs(qreplies, 1))
    /\ UNCHANGED <<qreplies, qres>>
    /\ RttFrame

\* result.UpdateStatistics() on a result holding the outcomes
RttUpdate ==
    /\ qres = NilRec
    /\ qres' = UpdateStatistics([Replies |-> qreplies, Statistics |-> NilRec])
    /\ UNCHANGED <<qreplies, qstats>>
    /\ RttFrame

NextRtt ==
    \/ RttCompute
    \/ RttUpdate

SpecRtt == InitRtt /\ [][NextRtt]_vars

\* the RTTs of the successful outcomes, by position
Succeeded == {k \in 1..Len(qreplies) : qreplies[k].Status = StatusSuccess}

RECURSIVE SumOver(_)
SumOver(ks) ==
    IF ks = {} THEN 0
    ELSE LET k == CHOOSE x \in ks : TRUE IN qreplies[k].RTT + SumOver(ks \ {k})

\* C24: ComputeRTTStats over the RTTs of the successful outcomes returns all
\* zeros for empty input and otherwise the smallest RTT, the largest RTT and
\* sum / count in integer nanoseconds, so that min <= avg <= max; StdDevRTT
\* is 0 whenever at most one outcome succeeded, and MinRTT, MaxRTT, AvgRTT
\* and StdDevRTT are all 0 when Received = 0.
C24_RTTStats ==
    /\ (qstats # NilRec /\ Succeeded = {}) =>
            qstats = [min |-> 0, max |-> 0, avg |-> 0, stddev |-> 0]
    /\ (qstats # NilRec /\ Succeeded # {}) =>
            /\ \E k \in Succeeded : qstats.min = qreplies[k].RTT
            /\ \A k \in Succeeded : qstats.min <= qreplies[k].RTT
            /\ \E k \in Succeeded : qstats.max = qreplies[k].RTT
            /\ \A k \in Succeeded : qstats.max >= qreplies[k].RTT
            /\ qstats.avg = SumOver(Succeeded) \div Cardinality(Succeeded)
            /\ qstats.min <= qstats.avg /\ qstats.avg <= qstats.max
    /\ qres # NilRec =>
            /\ qres.Statistics.Received = Cardinality(Succeeded)
            /\ Cardinality(Succeeded) <= 1 => qres.Statistics.StdDevRTT = 0
            /\ qres.Statistics.Received = 0 =>
                    /\ qres.Statistics.MinRTT = 0 /\ qres.Statistics.MaxRTT = 0
                    /\ qres.Statistics.AvgRTT = 0 /\ qres.Statistics.StdDevRTT = 0
            /\ (qstats # NilRec /\ Succeeded # {}) =>
                    /\ qres.Statistics.MinRTT = qstats.min
                    /\ qres.Statistics.MaxRTT = qstats.max
                    /\ qres.Statistics.AvgRTT = qstats.avg
                    /\ qres.Statistics.StdDevRTT = qstats.stddev

\* three successes among which the average lies strictly between the
\* smallest and the largest RTT and does not divide evenly, with a spread
C24_Witness ==
    /\ qstats # NilRec /\ qres # NilRec
    /\ Cardinality(Succeeded) = 3
    /\ qstats.min < qstats.avg /\ qstats.avg < qstats.max
    /\ SumOver(Succeeded) % 3 # 0
    /\ qstats.stddev > 0

(***************************************************************************)
(* TCPPinger.Ping and PingStream up to the resolution of the host: the     *)
(* empty-target test, parseTarget, the empty-host test, ResolveHost.       *)
(* A target is the sequence of its characters.  The targets considered     *)
(* hold no bracket, so that net.SplitHostPort reduces to the search of the *)
(* last colon.                                                             *)
(***************************************************************************)
MinPort == 1
MaxPort == 65535

ErrInvalidPort == "invalid port"

DigitChars == <<"0", "1", "2", "3", "4", "5", "6", "7", "8", "9">>

IsDigit(c) == \E d \in 1..10 : DigitChars[d] = c

DigitVal(c) == (CHOOSE d \in 1..10 : DigitChars[d] = c) - 1

\* the targets given to the prober
TcpTargets ==
    { <<>>,
      <<"h">>,
      <<"h", ":">>,
      <<":", "1", "2", "3", "4">>,
      <<"h", ":", "8", "0">>,
      <<"h", ":", "0">>,
      <<":", "0">>,
      <<"h", ":", "6", "5", "5", "3", "5">>,
      <<"h", ":", "6", "5", "5", "3", "6">>,
      <<"h", ":", "-", "5">>,
      <<"h", ":", "+", "8", "0">>,
      <<"h", ":", "x">>,
      <<"h", ":", "8", "0", "x">>,
      <<"h", ":", "h", ":", "8", "0">> }

\* opts.Port as the caller left it
OptionPorts == {0, 443, 8080}

Colons(s) == {k \in 1..Len(s) : s[k] = ":"}

\* net.SplitHostPort on a target without brackets
SplitHostPort(s) ==
    IF Colons(s) = {}
    THEN [err |-> "missing port in address", host |-> <<>>, port |-> <<>>]
    ELSE LET last == CHOOSE k \in Colons(s) : \A j \in Colons(s) : j <= k
         IN  IF Colons(s) # {last}
             THEN [err |-> "too many colons in address", host |-> <<>>, port |-> <<>>]
             ELSE [err |-> Nil, host |-> SubSeq(s, 1, last - 1),
                   port |-> SubSeq(s, last + 1, Len(s))]

\* the digits read from position k on: where the scan stopped and the value
RECURSIVE ScanDigits(_, _, _)
ScanDigits(s, k, acc) ==
    IF k <= Len(s) /\ IsDigit(s[k])
    THEN ScanDigits(s, k + 1, 10 * acc + DigitVal(s[k]))
    ELSE [stop |-> k, val |-> acc]

\* fmt.Sscanf(portStr, "%d", &portNum): an optional sign and the digits that
\* follow; what comes after the digits is left unread
Sscanf(s) ==
    LET signed == Len(s) > 0 /\ s[1] \in {"+", "-"}
        start  == IF signed THEN 2 ELSE 1
        r      == ScanDigits(s, start, 0)
    IN  IF r.stop = start
        THEN [err |-> "expected integer", val |-> 0]
        ELSE [err |-> Nil, val |-> IF signed /\ s[1] = "-" THEN 0 - r.val ELSE r.val]

parseTarget(t, defaultPort) ==
    LET sp == SplitHostPort(t)
    IN  IF sp.err # Nil
        THEN [host |-> t,
              port |-> IF defaultPort <= 0 THEN DefaultTCPPort ELSE defaultPort,
              err |-> Nil]
        ELSE IF sp.port # <<>>
             THEN LET sc == Sscanf(sp.port)
                  IN  IF sc.err # Nil \/ sc.val < MinPort \/ sc.val > MaxPort
                      THEN [host |-> <<>>, port |-> 0, err |-> ErrInvalidPort]
                      ELSE [host |-> sp.host, port |-> sc.val, err |-> Nil]
             ELSE [host |-> sp.host, port |-> defaultPort, err |-> Nil]

TcpFrame ==
    UNCHANGED <<pingVars, statsVars, streamVars, factVars, cacheVars, resolveVars,
                traceVars, icmpVars, batchVars, fanVars, closeVars, rttVars,
                sockVars, consVars>>

InitTcp ==
    /\ ptarget = <<>> /\ poptPort = 0 /\ pmode = Nil /\ ppc = "idle" /\ phost = <<>>
    /\ pport = 0 /\ perr = Nil /\ plooked = FALSE /\ pout = Nil
    \* the other components stay idle
    /\ prober = "TCPPinger" /\ target = "host" /\ resolves = "v4"
    /\ conn6 = FALSE /\ count = 0 /\ ctxErr = Nil /\ pc = "idle" /\ i = 0
    /\ result = NilRec /\ retErr = Nil /\ issued = 0
    /\ sres = NilRec /\ fresh = FALSE
    /\ scount = 0 /\ sctx = Nil /\ spc = "idle" /\ si = 0 /\ slot = NilRec
    /\ closed = FALSE /\ delivered = <<>> /\ created = 0
    /\ cancelAt = NilRec
    /\ fopts = NilRec /\ rawDenied = FALSE /\ fpc = "idle"
    /\ fpinger = Nil /\ ferr = Nil /\ fin = NilRec
    /\ heap = <<>> /\ nextRef = 1 /\ entries = <<>> /\ now = 0
    /\ held = {} /\ setVal = <<>> /\ gpc = <<>> /\ gloc = <<>>
    /\ got = NilRec
    /\ rpc = "idle" /\ rhost = Nil /\ rver = 0 /\ rlookup = NilRec
    /\ rret = NilRec /\ rerr = Nil /\ rops = <<>>
    /\ topts = NilRec /\ tpc = "idle" /\ ttl = 0 /\ hop = NilRec
    /\ tres = NilRec /\ tretErr = Nil /\ texit = Nil
    /\ ipc = "idle" /\ ictx = Nil /\ iseq = 0 /\ irep = NilRec
    /\ iexpired = FALSE /\ irdl = Nil /\ iwpc = "none" /\ ilast = NilRec
    /\ idisc = 0 /\ icancelAt = Nil /\ iafter = FALSE
    /\ bfmt = Nil /\ bn = 0 /\ bctx = Nil /\ bmain = "idle" /\ bsent = 0
    /\ bjobsClosed = FALSE /\ bw = <<>> /\ bchan = <<>> /\ ball = <<>>
    /\ bret = Nil
    /\ kmode = Nil /\ kcpu = 0 /\ kconc = 0 /\ kn = 0 /\ klimit = 0 /\ kq = 0
    /\ ksel = 0 /\ kping = 0 /\ kdone = 0 /\ kctx = Nil /\ kpc = "idle"
    /\ ckind = Nil /\ c4 = Nil /\ c6 = Nil /\ cerrs = <<>> /\ cuse = Nil
    /\ qreplies = <<>> /\ qstats = NilRec /\ qres = NilRec
    /\ wbase = 0 /\ wnext = 0 /\ wk = 0 /\ wpc = "idle" /\ wpre = Nil /\ wmain = Nil
    /\ wdl = NilRec /\ wwatch = <<>> /\ wexp = FALSE /\ wnet = {} /\ wout = <<>>
    /\ consumer = Nil /\ cons = "idle"

\* Ping, or PingStream, is called and validates its target: it returns the
\* validation error, or goes on to resolve the host
TcpCall ==
    /\ ppc = "idle"
    /\ \E t \in TcpTargets, port \in OptionPorts, mode \in {"Ping", "PingStream"} :
        LET pt == parseTarget(t, port)
            e  == IF t = <<>> THEN ErrInvalidHost
                  ELSE IF pt.err # Nil THEN pt.err
                  ELSE IF pt.host = <<>> THEN ErrInvalidHost
                  ELSE Nil
        IN  /\ ptarget' = t /\ poptPort' = port /\ pmode' = mode
            /\ perr' = e
            /\ ppc' = IF e # Nil THEN "ret" ELSE "resolve"
            /\ phost' = IF e # Nil THEN <<>> ELSE pt.host
            /\ pport' = IF e # Nil THEN 0 ELSE pt.port
    /\ UNCHANGED <<plooked, pout>>
    /\ TcpFrame

\* netutil.ResolveHost fails: the call returns the wrapped error
TcpResolveFails ==
    /\ ppc = "resolve"
    /\ plooked' = TRUE /\ perr' = ErrResolve /\ ppc' = "ret"
    /\ UNCHANGED <<ptarget, poptPort, pmode, phost, pport, pout>>
    /\ TcpFrame

\* the host resolves: Ping probes and returns its result, PingStream starts
\* the producer and returns the channel
TcpResolved ==
    /\ ppc = "resolve"
    /\ plooked' = TRUE /\ ppc' = "ret"
    /\ pout' = IF pmode = "Ping" THEN "result" ELSE "stream"
    /\ UNCHANGED <<ptarget, poptPort, pmode, phost, pport, perr>>
    /\ TcpFrame

NextTcp ==
    \/ TcpCall
    \/ TcpResolveFails
    \/ TcpResolved

SpecTcp == InitTcp /\ [][NextTcp]_vars

\* the target as written: with an explicit port part after a host part
HasPortPart == SplitHostPort(ptarget).err = Nil
HostPart    == IF HasPortPart THEN SplitHostPort(ptarget).host ELSE ptarget
PortPart    == SplitHostPort(ptarget).port

Numeric(s) == s # <<>> /\ \A k \in 1..Len(s) : IsDigit(s[k])

\* the value of a numeric string
NumberOf(s) == ScanDigits(s, 1, 0).val

ExplicitPort == HasPortPart /\ PortPart # <<>>
BadPort ==
    ExplicitPort /\ (~Numeric(PortPart) \/ NumberOf(PortPart) < 1 \/ NumberOf(PortPart) > 65535)
BadHost == ptarget = <<>> \/ HostPart = <<>>

Rejected(e) == ppc = "ret" /\ perr = e /\ ~plooked /\ pout = Nil

\* C25: TCPPinger.Ping and PingStream reject an invalid target before any
\* I/O: an empty target or an empty host part yields ErrInvalidHost, an
\* explicit port that is not numeric or lies outside 1..65535 yields
\* ErrInvalidPort, in both cases with no resolution, no probe and nothing
\* returned; a valid explicit port overrides options.Port, and a missing
\* port falls back to options.Port or else to the TCP default.
C25_TargetValidation ==
    ppc # "idle" =>
        /\ (BadHost /\ ~BadPort) => Rejected(ErrInvalidHost)
        /\ (BadPort /\ ~BadHost) => Rejected(ErrInvalidPort)
        /\ (BadHost /\ BadPort) => (Rejected(ErrInvalidHost) \/ Rejected(ErrInvalidPort))
        /\ (~BadHost /\ ~BadPort) =>
            /\ perr \in {Nil, ErrResolve}
            /\ pport = IF ExplicitPort THEN NumberOf(PortPart)
                       ELSE IF poptPort > 0 THEN poptPort ELSE DefaultTCPPort

(***************************************************************************)
(* streamSingleTarget on an ICMPPinger: the preflight Ping of one probe    *)
(* under its own context, which is cancelled as soon as Ping returns, and  *)
(* then the probes of PingStream, all calls of pingOnce on the same        *)
(* socket.  Probe 0 is the preflight probe, probe k >= 1 the k-th of the   *)
(* stream probes followed here.  Every call of pingOnce sets the read      *)
(* deadline of the socket and, once the request is written, starts a       *)
(* watcher that forces the deadline to now when the context of the call    *)
(* is done, or ends when the call has returned.                            *)
(***************************************************************************)
MaxProbes == 2     \* stream probes followed

\* the Sequence field of an ICMP Echo is 16 bits wide
SeqField == 65536

\* icmp.Echo.Marshal writes the low 16 bits of Seq; the reply echoes them
WireSeq(seq) == seq % SeqField

Probes == 0..MaxProbes

\* how many probes the stream has completed before: none, or so many that
\* the counter is about to pass the width of the field
StreamBases == {0, SeqField - 2}

\* the seq argument of pingOnce: i+1, counted from 0 in every call of Ping
\* and of PingStream
SeqOf(k) == IF k = 0 THEN 1 ELSE wbase + k

CtxOf(k) == IF k = 0 THEN wpre ELSE wmain

SockFrame ==
    UNCHANGED <<pingVars, statsVars, streamVars, factVars, cacheVars, resolveVars,
                traceVars, icmpVars, batchVars, fanVars, closeVars, rttVars, tcpVars,
                consVars>>

\* the stream starts with the preflight probe, or is met after
\* SeqField - 2 probes, the preflight long over and its context cancelled
InitSock ==
    /\ wbase \in StreamBases
    /\ wnext = IF wbase = 0 THEN 0 ELSE 1
    /\ wk = 0
    /\ wpc = IF wbase = 0 THEN "idle" ELSE "done"
    /\ wpre = IF wbase = 0 THEN Nil ELSE ErrCanceled
    /\ wmain = Nil
    /\ wdl = NilRec
    /\ wwatch = [k \in Probes |-> IF wbase # 0 /\ k = 0 THEN "quit" ELSE "none"]
    /\ wexp = FALSE
    /\ wnet = {}
    /\ wout = [k \in Probes |->
                 IF wbase # 0 /\ k = 0
                 THEN [Status |-> StatusSuccess, Error |-> Nil, by |-> 0, early |-> FALSE]
                 ELSE NilRec]
    \* the other components stay idle
    /\ prober = "TCPPinger" /\ target = "host" /\ resolves = "v4"
    /\ conn6 = FALSE /\ count = 0 /\ ctxErr = Nil /\ pc = "idle" /\ i = 0
    /\ result = NilRec /\ retErr = Nil /\ issued = 0
    /\ sres = NilRec /\ fresh = FALSE
    /\ scount = 0 /\ sctx = Nil /\ spc = "idle" /\ si = 0 /\ slot = NilRec
    /\ closed = FALSE /\ delivered = <<>> /\ created = 0
    /\ cancelAt = NilRec
    /\ fopts = NilRec /\ rawDenied = FALSE /\ fpc = "idle"
    /\ fpinger = Nil /\ ferr = Nil /\ fin = NilRec
    /\ heap = <<>> /\ nextRef = 1 /\ entries = <<>> /\ now = 0
    /\ held = {} /\ setVal = <<>> /\ gpc = <<>> /\ gloc = <<>>
    /\ got = NilRec
    /\ rpc = "idle" /\ rhost = Nil /\ rver = 0 /\ rlookup = NilRec
    /\ rret = NilRec /\ rerr = Nil /\ rops = <<>>
    /\ topts = NilRec /\ tpc = "idle" /\ ttl = 0 /\ hop = NilRec
    /\ tres = NilRec /\ tretErr = Nil /\ texit = Nil
    /\ ipc = "idle" /\ ictx = Nil /\ iseq = 0 /\ irep = NilRec
    /\ iexpired = FALSE /\ irdl = Nil /\ iwpc = "none" /\ ilast = NilRec
    /\ idisc = 0 /\ icancelAt = Nil /\ iafter = FALSE
    /\ bfmt = Nil /\ bn = 0 /\ bctx = Nil /\ bmain = "idle" /\ bsent = 0
    /\ bjobsClosed = FALSE /\ bw = <<>> /\ bchan = <<>> /\ ball = <<>>
    /\ bret = Nil
    /\ kmode = Nil /\ kcpu = 0 /\ kconc = 0 /\ kn = 0 /\ klimit = 0 /\ kq = 0
    /\ ksel = 0 /\ kping = 0 /\ kdone = 0 /\ kctx = Nil /\ kpc = "idle"
    /\ ckind = Nil /\ c4 = Nil /\ c6 = Nil /\ cerrs = <<>> /\ cuse = Nil
    /\ qreplies = <<>> /\ qstats = NilRec /\ qres = NilRec
    /\ ptarget = <<>> /\ poptPort = 0 /\ pmode = Nil /\ ppc = "idle" /\ phost = <<>>
    /\ pport = 0 /\ perr = Nil /\ plooked = FALSE /\ pout = Nil
    /\ consumer = Nil /\ cons = "idle"

SockEnded(s, e, by, early) ==
    [wout EXCEPT ![wk] = [Status |-> s, Error |-> e, by |-> by, early |-> early]]

\* the loop of Ping, or of PingStream, finds its context alive and calls
\* pingOnce, which sets the deadlines of the socket; cancel() of the
\* preflight context has run before PingStream is called
SockStart ==
    /\ wpc \in {"idle", "done"} /\ wnext <= MaxProbes
    /\ CtxOf(wnext) = Nil
    /\ wnext >= 1 => wpre # Nil
    /\ wk' = wnext /\ wnext' = wnext + 1
    /\ wdl' = [owner |-> wnext, forced |-> FALSE, by |-> wnext, late |-> FALSE]
    /\ wexp' = FALSE /\ wpc' = "armed"
    /\ UNCHANGED <<wbase, wpre, wmain, wwatch, wnet, wout>>
    /\ SockFrame

\* the loop of PingStream finds its context done and the producer returns
SockStop ==
    /\ wpc = "done" /\ wnext >= 1 /\ wmain # Nil
    /\ wpc' = "stopped"
    /\ UNCHANGED <<wbase, wnext, wk, wpre, wmain, wdl, wwatch, wexp, wnet, wout>>
    /\ SockFrame

\* ctx.Err() before the write; then WriteTo sends the Echo Request, which
\* the target answers, and the watcher is started
SockWrite ==
    /\ wpc = "armed"
    /\ IF CtxOf(wk) # Nil
       THEN /\ wout' = SockEnded(StatusFailure, CtxOf(wk), wk, FALSE)
            /\ wpc' = "done"
            /\ UNCHANGED <<wwatch, wnet>>
       ELSE /\ wnet' = wnet \cup {[ID |-> TransportID, Seq |-> WireSeq(SeqOf(wk)), by |-> wk]}
            /\ wwatch' = [wwatch EXCEPT ![wk] = "waiting"]
            /\ wpc' = "reading"
            /\ UNCHANGED wout
    /\ UNCHANGED <<wbase, wnext, wk, wpre, wmain, wdl, wexp>>
    /\ SockFrame

SockReadDue == wexp \/ wdl.forced

\* the test of ctx.Err() at the top of the read loop
SockCancelSeen ==
    /\ wpc = "reading" /\ CtxOf(wk) # Nil
    /\ wout' = SockEnded(StatusFailure, CtxOf(wk), wk, FALSE)
    /\ wpc' = "done"
    /\ UNCHANGED <<wbase, wnext, wk, wpre, wmain, wdl, wwatch, wexp, wnet>>
    /\ SockFrame

\* ReadFrom delivers an Echo Reply: it is accepted when Identifier and
\* Sequence compare equal to p.id and seq, and dropped otherwise, the
\* deadline being tested before the next read
SockRead ==
    /\ wpc = "reading" /\ ~SockReadDue
    /\ \E m \in wnet :
        /\ wnet' = wnet \ {m}
        /\ IF EchoMatches(m, TransportID, SeqOf(wk))
           THEN /\ wout' = SockEnded(StatusSuccess, Nil, m.by, FALSE)
                /\ wpc' = "done"
           ELSE UNCHANGED <<wout, wpc>>
    /\ UNCHANGED <<wbase, wnext, wk, wpre, wmain, wdl, wwatch, wexp>>
    /\ SockFrame

\* ReadFrom fails on the read deadline of the socket
SockReadTimeout ==
    /\ wpc = "reading" /\ SockReadDue
    /\ wout' = IF CtxOf(wk) # Nil
               THEN SockEnded(StatusFailure, CtxOf(wk), wk, FALSE)
               ELSE SockEnded(StatusTimeout, Nil, wk, ~wexp)
    /\ wpc' = "done"
    /\ UNCHANGED <<wbase, wnext, wk, wpre, wmain, wdl, wwatch, wexp, wnet>>
    /\ SockFrame

\* opts.Timeout elapses
SockDeadlinePasses ==
    /\ wpc \in {"armed", "reading"} /\ ~wexp
    /\ wexp' = TRUE
    /\ UNCHANGED <<wbase, wnext, wk, wpc, wpre, wmain, wdl, wwatch, wnet, wout>>
    /\ SockFrame

\* cancel() after the preflight Ping returned, or the timeout of its context
SockCancelPre ==
    /\ wpre = Nil /\ wnext >= 1
    /\ wpre' = ErrCanceled
    /\ UNCHANGED <<wbase, wnext, wk, wpc, wmain, wdl, wwatch, wexp, wnet, wout>>
    /\ SockFrame

\* the context of the command is cancelled, and with it the derived one
SockCancelMain ==
    /\ wmain = Nil /\ wpc # "stopped"
    /\ wmain' = ErrCanceled
    /\ wpre' = IF wpre = Nil THEN ErrCanceled ELSE wpre
    /\ UNCHANGED <<wbase, wnext, wk, wpc, wdl, wwatch, wexp, wnet, wout>>
    /\ SockFrame

\* case <-ctx.Done(): conn.SetReadDeadline(time.Now()); the select may take
\* this case also when cancelRead is closed already
SockWatcherFire ==
    /\ \E k \in Probes :
        /\ wwatch[k] = "waiting" /\ CtxOf(k) # Nil
        /\ wwatch' = [wwatch EXCEPT ![k] = "fired"]
        /\ wdl' = [wdl EXCEPT !.forced = TRUE, !.by = k, !.late = (wout[k] # NilRec)]
    /\ UNCHANGED <<wbase, wnext, wk, wpc, wpre, wmain, wexp, wnet, wout>>
    /\ SockFrame

\* case <-cancelRead: the call of pingOnce has returned
SockWatcherQuit ==
    /\ \E k \in Probes :
        /\ wwatch[k] = "waiting" /\ wout[k] # NilRec
        /\ wwatch' = [wwatch EXCEPT ![k] = "quit"]
    /\ UNCHANGED <<wbase, wnext, wk, wpc, wpre, wmain, wdl, wexp, wnet, wout>>
    /\ SockFrame

NextSock ==
    \/ SockStart
    \/ SockStop
    \/ SockWrite
    \/ SockCancelSeen
    \/ SockRead
    \/ SockReadTimeout
    \/ SockDeadlinePasses
    \/ SockCancelPre
    \/ SockCancelMain
    \/ SockWatcherFire
    \/ SockWatcherQuit

SpecSock == InitSock /\ [][NextSock]_vars

ProbeReturned(k) == wout[k] # NilRec

\* C27: the watcher of a probe never changes the read deadline of the
\* socket after that probe has returned, so that a later probe never times
\* out before its own now+Timeout unless its own context is cancelled.
C27_NoLeftoverWatcher ==
    /\ wdl # NilRec => ~wdl.late
    /\ \A k \in Probes :
        (ProbeReturned(k) /\ wout[k].Status = StatusTimeout) => ~wout[k].early

\* C28: for every probe index, beyond 65535 too, the Echo Reply that echoes
\* the Identifier and Sequence sent on the wire for that probe is accepted
\* as the success of the probe when the probe reads it.
C28_OwnReplyAccepted ==
    [][\A m \in wnet :
        (wpc = "reading" /\ m \notin wnet' /\ m.by = wk) =>
            (wpc' = "done" /\ wout'[wk].Status = StatusSuccess)]_vars

\* C30: a response accepted as the outcome of a probe was elicited by that
\* same probe, never by an earlier probe that carried the same Identifier
\* and Sequence.
C30_OwnResponseOnly ==
    \A k \in Probes :
        (ProbeReturned(k) /\ wout[k].Status = StatusSuccess) => wout[k].by = k

(***************************************************************************)
(* PingStream with its consumer.  The producer is the goroutine of         *)
(* PingStream as above; its send on the unbuffered channel completes only  *)
(* while the consumer receives.  The stream printer (streamSingleTarget)   *)
(* leaves its range loop when it finds the context cancelled after a       *)
(* receive; the monitor (runPingMonitor) selects between ctx.Done(), on    *)
(* which it returns, and the receive.                                      *)
(***************************************************************************)
Consumers == {"stream", "monitor"}

InitConsume ==
    /\ scount \in -1..MaxCount
    /\ sctx = Nil /\ spc = "check" /\ si = 0 /\ slot = NilRec
    /\ closed = FALSE /\ delivered = <<>> /\ created = 0
    /\ cancelAt = NilRec
    /\ consumer \in Consumers /\ cons = "receiving"
    \* the other components stay idle
    /\ prober = "TCPPinger" /\ target = "host" /\ resolves = "v4"
    /\ conn6 = FALSE /\ count = 0 /\ ctxErr = Nil /\ pc = "idle" /\ i = 0
    /\ result = NilRec /\ retErr = Nil /\ issued = 0
    /\ sres = NilRec /\ fresh = FALSE
    /\ fopts = NilRec /\ rawDenied = FALSE /\ fpc = "idle"
    /\ fpinger = Nil /\ ferr = Nil /\ fin = NilRec
    /\ heap = <<>> /\ nextRef = 1 /\ entries = <<>> /\ now = 0
    /\ held = {} /\ setVal = <<>> /\ gpc = <<>> /\ gloc = <<>>
    /\ got = NilRec
    /\ rpc = "idle" /\ rhost = Nil /\ rver = 0 /\ rlookup = NilRec
    /\ rret = NilRec /\ rerr = Nil /\ rops = <<>>
    /\ topts = NilRec /\ tpc = "idle" /\ ttl = 0 /\ hop = NilRec
    /\ tres = NilRec /\ tretErr = Nil /\ texit = Nil
    /\ ipc = "idle" /\ ictx = Nil /\ iseq = 0 /\ irep = NilRec
    /\ iexpired = FALSE /\ irdl = Nil /\ iwpc = "none" /\ ilast = NilRec
    /\ idisc = 0 /\ icancelAt = Nil /\ iafter = FALSE
    /\ bfmt = Nil /\ bn = 0 /\ bctx = Nil /\ bmain = "idle" /\ bsent = 0
    /\ bjobsClosed = FALSE /\ bw = <<>> /\ bchan = <<>> /\ ball = <<>>
    /\ bret = Nil
    /\ kmode = Nil /\ kcpu = 0 /\ kconc = 0 /\ kn = 0 /\ klimit = 0 /\ kq = 0
    /\ ksel = 0 /\ kping = 0 /\ kdone = 0 /\ kctx = Nil /\ kpc = "idle"
    /\ ckind = Nil /\ c4 = Nil /\ c6 = Nil /\ cerrs = <<>> /\ cuse = Nil
    /\ qreplies = <<>> /\ qstats = NilRec /\ qres = NilRec
    /\ ptarget = <<>> /\ poptPort = 0 /\ pmode = Nil /\ ppc = "idle" /\ phost = <<>>
    /\ pport = 0 /\ perr = Nil /\ plooked = FALSE /\ pout = Nil
    /\ wbase = 0 /\ wnext = 0 /\ wk = 0 /\ wpc = "idle" /\ wpre = Nil /\ wmain = Nil
    /\ wdl = NilRec /\ wwatch = <<>> /\ wexp = FALSE /\ wnet = {} /\ wout = <<>>

\* reply := <-replyChan: the rendezvous with the producer's send; the
\* stream printer then tests ctx.Err() and breaks
ConsumerReceive ==
    /\ cons = "receiving" /\ spc = "send"
    /\ delivered' = Append(delivered, slot)
    /\ slot' = NilRec
    /\ IF scount <= 0 \/ si < scount - 1
       THEN spc' = "interval" /\ si' = si
       ELSE spc' = "check" /\ si' = si + 1
    /\ cons' = IF consumer = "stream" /\ sctx # Nil THEN "stopped" ELSE "receiving"
    /\ UNCHANGED <<scount, sctx, closed, created, cancelAt, consumer>>
    /\ UNCHANGED <<pingVars, statsVars, factVars, cacheVars, resolveVars, traceVars,
                   icmpVars, batchVars, fanVars, closeVars, rttVars, tcpVars, sockVars>>

\* case <-ctx.Done(): the monitor returns
ConsumerStop ==
    /\ cons = "receiving" /\ consumer = "monitor" /\ sctx # Nil
    /\ cons' = "stopped"
    /\ UNCHANGED <<streamVars, consumer>>
    /\ UNCHANGED <<pingVars, statsVars, factVars, cacheVars, resolveVars, traceVars,
                   icmpVars, batchVars, fanVars, closeVars, rttVars, tcpVars, sockVars>>

\* the receive finds the channel closed: the range loop ends, the monitor
\* returns
ConsumerEnd ==
    /\ cons = "receiving" /\ closed
    /\ cons' = "ended"
    /\ UNCHANGED <<streamVars, consumer>>
    /\ UNCHANGED <<pingVars, statsVars, factVars, cacheVars, resolveVars, traceVars,
                   icmpVars, batchVars, fanVars, closeVars, rttVars, tcpVars, sockVars>>

NextConsume ==
    \/ StreamCheck
    \/ StreamProbe
    \/ StreamIntervalElapsed
    \/ StreamIntervalCancelled
    \/ StreamClose
    \/ StreamCancel
    \/ ConsumerReceive
    \/ ConsumerStop
    \/ ConsumerEnd

SpecConsume == InitConsume /\ [][NextConsume]_vars

\* the goroutines are scheduled, the probe returns, the timer fires, and a
\* consumer that is receiving takes what is sent
FairConsume ==
    /\ SpecConsume
    /\ WF_vars(StreamCheck)
    /\ WF_vars(StreamProbe)
    /\ WF_vars(StreamIntervalElapsed)
    /\ WF_vars(StreamIntervalCancelled)
    /\ WF_vars(StreamClose)
    /\ WF_vars(ConsumerReceive)
    /\ WF_vars(ConsumerStop)
    /\ WF_vars(ConsumerEnd)

\* C29: after the context of a PingStream call is cancelled the producer
\* eventually terminates and closes the channel, even if the consumer has
\* stopped receiving; it never stays blocked on sending an outcome.
C29_ProducerTerminates == (sctx # Nil) ~> (spc = "done" /\ closed)

====
